---- MODULE Spec2Model ----
(***************************************************************************)
(* A model of mkosi's image construction core (src/mkosi/__init__.py):     *)
(*   - the partition table engine (PartitionTable, insert_partition),      *)
(*   - one build pass (build_image) with its loop device, encryption       *)
(*     mappings and mount tree,                                            *)
(*   - the staged pipeline (build_stuff) with its cache artifacts.         *)
(* Sizes are bytes unless a name says sectors.                             *)
(***************************************************************************)
EXTENDS Integers, Sequences, FiniteSets, TLC

\* Python's None for an optional integer / an optional partition number.
None == 0 - 1
\* Python's None for an optional uuid.UUID (a UUID is a tuple of 32 nibbles).
NoUuid == <<>>

\* ------------------------------------------------------------------ bounds
\* At most this many of the data volumes home, srv, var, tmp are configured.
MaxDataVolumes == 1
\* How many different sizes a generated file system or verity blob may have.
MaxBlobChoices == 2
\* How many root hash fixtures veritysetup may print.
MaxHashes == 2
\* How many build_stuff invocations run on the host at once.
MaxInvocations == 2

\* ------------------------------------------------------- program constants
SECTOR_SIZE == 512
GRAIN == 4096
MAX_PARTITIONS == 128
PEA_ENTRY_SIZE == 128
REREAD_ATTEMPTS == 10
BIOS_PARTITION_SIZE == 1024 * 1024
LUKS_EXTRA == 16 * 1024 * 1024
MiB == 1024 * 1024

\* sfdisk's defaults when the script names neither (libfdisk: 1 MiB).
SFDISK_DEFAULT_GRAIN == 1024 * 1024
SFDISK_DEFAULT_FIRST_LBA == SFDISK_DEFAULT_GRAIN \div 512

\* ------------------------------------------------------------- arithmetic
roundup(x, step) == ((x + step - 1) \div step) * step

ceildiv(a, b) == (a + b - 1) \div b

Max2(a, b) == IF a >= b THEN a ELSE b

\* ------------------------------------------------------------ OutputFormat
DiskRwFormats == {"gpt_ext4", "gpt_xfs", "gpt_btrfs"}

is_disk_rw(fmt) == fmt \in DiskRwFormats

is_disk(fmt) == fmt \in DiskRwFormats \cup {"gpt_squashfs"}

is_squashfs(fmt) == fmt \in {"gpt_squashfs", "plain_squashfs"}

is_btrfs(fmt) == fmt \in {"gpt_btrfs", "subvolume"}

can_minimize(fmt) == fmt \in {"gpt_ext4", "gpt_btrfs"}

is_generated_root(a) == a.minimize \/ is_squashfs(a.output_format) \/ a.usr_only

\* ------------------------------------------------------------------ UUIDs
HexDigits == <<"0","1","2","3","4","5","6","7","8","9","a","b","c","d","e","f">>

HexDigitsUpper == <<"0","1","2","3","4","5","6","7","8","9","A","B","C","D","E","F">>

\* int(c, 16): upper and lower case digits read alike.
HexVal(c) == (CHOOSE i \in 1..16 : HexDigits[i] = c \/ HexDigitsUpper[i] = c) - 1

\* uuid.UUID(hex): the 128-bit value of a string of 32 hex digits.
UUID(hex) == [i \in 1..32 |-> HexVal(hex[i])]

\* str(u): 8-4-4-4-12 lower-case hex digits.
UuidDashAt == {9, 14, 19, 24}

UuidStr(u) ==
    [i \in 1..36 |->
        IF i \in UuidDashAt THEN "-"
        ELSE HexDigits[u[i - Cardinality({d \in UuidDashAt : d < i})] + 1]]

\* sfdisk --dump prints partition UUIDs in upper case.
UuidDump(u) ==
    [i \in 1..36 |->
        IF i \in UuidDashAt THEN "-"
        ELSE HexDigitsUpper[u[i - Cardinality({d \in UuidDashAt : d < i})] + 1]]

\* sfdisk's reading of a uuid= field.
SfdiskParseUuid(s) == UUID(SelectSeq(s, LAMBDA c : c # "-"))

\* Python slices of a string: s[:n] and s[-n:].
PyHead(s, n) == SubSeq(s, 1, IF n < Len(s) THEN n ELSE Len(s))

\* A slice taken from the wrong end.
PyTail_head(s, n) == SubSeq(s, 1, IF n < Len(s) THEN n ELSE Len(s))

PyTail(s, n) == SubSeq(s, Max2(1, Len(s) - n + 1), Len(s))

\* A partition UUID sfdisk made up itself.
RandomUuid == [i \in 1..32 |-> 0]

\* --------------------------------------------------------- PartitionTable
\* A descriptor line of the sfdisk script / dump: the fields mkosi writes or
\* replays.  start/size are sectors, None when the line does not give them;
\* uuid is the text of the uuid= field, NoUuid when absent.
Line(start, size, type, attrs, name, uuid) ==
    [start |-> start, size |-> size, type |-> type, attrs |-> attrs,
     name |-> name, uuid |-> uuid]

PartitionTable(partitions, last_partition_sector, sector_size, first_lba) ==
    [partitions |-> partitions, last_partition_sector |-> last_partition_sector,
     sector_size |-> sector_size, first_lba |-> first_lba, grain |-> GRAIN]

PT_empty(first_lba) == PartitionTable(<<>>, None, SECTOR_SIZE, first_lba)

RECURSIVE LastSector(_, _)
LastSector(lines, i) ==
    IF i = 0 THEN 0
    ELSE LET l == lines[i]
             rest == LastSector(lines, i - 1)
         IN IF l.start # None /\ l.size # None
            THEN Max2(rest, l.start + l.size) ELSE rest

\* A reader that forgets where the partitions start.
PT_read_nostart(dump) ==
    PartitionTable([i \in 1..Len(dump.lines) |-> [dump.lines[i] EXCEPT !.start = None]],
                   LastSector(dump.lines, Len(dump.lines)) * dump.sector_size,
                   dump.sector_size, dump.first_lba)

\* PartitionTable.read of the text `sfdisk --dump` printed.
PT_read(dump) ==
    PartitionTable(dump.lines,
                   LastSector(dump.lines, Len(dump.lines)) * dump.sector_size,
                   dump.sector_size, dump.first_lba)

\* A footer with no sector for the GPT header.
footer_size_noheader(t) ==
    ceildiv(MAX_PARTITIONS * PEA_ENTRY_SIZE, t.sector_size) * t.sector_size

footer_size(t) ==
    (1 + ceildiv(MAX_PARTITIONS * PEA_ENTRY_SIZE, t.sector_size)) * t.sector_size

\* An offset that is not rounded up to the grain after the last partition.
first_usable_offset_unrounded(t) ==
    IF t.last_partition_sector # None /\ t.last_partition_sector # 0
    THEN t.last_partition_sector
    ELSE IF t.first_lba # None
         THEN t.first_lba * t.sector_size
         ELSE roundup(t.sector_size + footer_size(t), t.grain)

first_usable_offset(t) ==
    IF t.last_partition_sector # None /\ t.last_partition_sector # 0
    THEN roundup(t.last_partition_sector, t.grain)
    ELSE IF t.first_lba # None
         THEN t.first_lba * t.sector_size
         ELSE roundup(t.sector_size + footer_size(t), t.grain)

\* ------------------------------------------------- the partitioner (sfdisk)
\* The table on the image: label is FALSE until a GPT has been written.
NoDisk == [label |-> FALSE, first_lba |-> None, parts |-> <<>>]

\* A script handed to sfdisk: the header fields mkosi writes and the lines.
Script(grain, first_lba, lines) ==
    [grain |-> grain, first_lba |-> first_lba, lines |-> lines]

\* Where sfdisk puts the lines of a script on a device of last usable sector
\* lastLba: a line with start= keeps it, a line without goes to the first
\* free sector at or after first-lba, aligned to the grain; a line without
\* size= takes what is left.  ok is FALSE when a line does not fit.
RECURSIVE SfdiskPlace(_, _, _, _, _)
SfdiskPlace(lines, i, first, grainS, lastLba) ==
    IF i = 0 THEN [ok |-> TRUE, parts |-> <<>>, end |-> 0]
    ELSE LET prev == SfdiskPlace(lines, i - 1, first, grainS, lastLba)
             l == lines[i]
             start == IF l.start # None THEN l.start
                      ELSE roundup(Max2(first, prev.end), grainS)
             size == IF l.size # None THEN l.size
                     ELSE ((lastLba + 1 - start) \div grainS) * grainS
             part == [start |-> start, size |-> size, type |-> l.type,
                      attrs |-> l.attrs, name |-> l.name,
                      uuid |-> IF l.uuid # NoUuid THEN SfdiskParseUuid(l.uuid)
                               ELSE RandomUuid]
         IN [ok |-> prev.ok /\ size > 0 /\ start >= prev.end
                    /\ start + size - 1 <= lastLba,
             parts |-> Append(prev.parts, part),
             end |-> start + size]

\* sfdisk applying a script to an image of `bytes` bytes.
SfdiskApply(script, bytes) ==
    LET first == IF script.first_lba # None THEN script.first_lba
                 ELSE SFDISK_DEFAULT_FIRST_LBA
        grainB == IF script.grain # None THEN script.grain ELSE SFDISK_DEFAULT_GRAIN
        grainS == Max2(1, grainB \div SECTOR_SIZE)
        lastLba == bytes \div SECTOR_SIZE
                   - (1 + ceildiv(MAX_PARTITIONS * PEA_ENTRY_SIZE, SECTOR_SIZE)) - 1
        placed == SfdiskPlace(script.lines, Len(script.lines), first, grainS, lastLba)
    IN [ok |-> placed.ok,
        disk |-> [label |-> TRUE, first_lba |-> first, parts |-> placed.parts]]

\* sfdisk --dump: the header fields PartitionTable.read looks at, and one
\* descriptor line per partition, each with its start, size and uuid.
SfdiskDump(d) ==
    [sector_size |-> SECTOR_SIZE,
     first_lba |-> d.first_lba,
     lines |-> [i \in 1..Len(d.parts) |->
                  Line(d.parts[i].start, d.parts[i].size, d.parts[i].type,
                       d.parts[i].attrs, d.parts[i].name, UuidDump(d.parts[i].uuid))]]

\* ------------------------------------------------ determine_partition_table
RoleOrder == <<"esp", "bios", "xbootldr", "swap", "home", "srv", "var", "tmp",
               "root", "verity">>

DataVolumes == {"home", "srv", "var", "tmp"}

RoleSize(a, role) ==
    CASE role = "esp" -> a.esp_size
      [] role = "bios" -> BIOS_PARTITION_SIZE
      [] role = "xbootldr" -> a.xbootldr_size
      [] role = "swap" -> a.swap_size
      [] role = "home" -> a.home_size
      [] role = "srv" -> a.srv_size
      [] role = "var" -> a.var_size
      [] role = "tmp" -> a.tmp_size
      [] OTHER -> None

\* A numbering that reserves no number for a root generated later.
RoleNumbered_unreserved(a, role) ==
    CASE role = "esp" -> a.bootable /\ "uefi" \in a.boot_protocols
      [] role = "bios" -> a.bootable /\ "bios" \in a.boot_protocols
      [] role \in {"xbootldr", "swap"} -> RoleSize(a, role) # None
      [] role \in DataVolumes ->
            a.output_format # "gpt_btrfs" /\ RoleSize(a, role) # None
      [] role = "root" -> ~is_generated_root(a)
      [] role = "verity" -> a.verity

\* Whether determine_partition_table gives the role a partition number.
RoleNumbered(a, role) ==
    CASE role = "esp" -> a.bootable /\ "uefi" \in a.boot_protocols
      [] role = "bios" -> a.bootable /\ "bios" \in a.boot_protocols
      [] role \in {"xbootldr", "swap"} -> RoleSize(a, role) # None
      [] role \in DataVolumes ->
            a.output_format # "gpt_btrfs" /\ RoleSize(a, role) # None
      [] role = "root" -> TRUE
      [] role = "verity" -> a.verity

\* Whether determine_partition_table writes a line for the role.
RoleHasLine(a, role) ==
    CASE role = "root" -> ~is_generated_root(a)
      [] role = "verity" -> FALSE
      [] OTHER -> RoleNumbered(a, role)

\* Whether the role's branch sets run_sfdisk.
RoleRunsSfdisk(a, role) ==
    CASE role \in {"esp", "bios"} -> a.bootable
      [] role = "xbootldr" -> FALSE
      [] OTHER -> RoleHasLine(a, role)

RoleIndex(role) == CHOOSE i \in 1..Len(RoleOrder) : RoleOrder[i] = role

\* pn at the point where the role's branch is reached.
PartNoOf(a, role) ==
    IF RoleNumbered(a, role)
    THEN 1 + Cardinality({i \in 1..(RoleIndex(role) - 1) : RoleNumbered(a, RoleOrder[i])})
    ELSE None

RoleLine(a, role) ==
    IF role = "root"
    THEN Line(None, None, "root",
              IF a.read_only /\ a.output_format # "gpt_btrfs" THEN "GUID:60" ELSE "",
              "root", NoUuid)
    ELSE Line(None, RoleSize(a, role) \div 512, role, "", role, NoUuid)

RECURSIVE TableLines(_, _)
TableLines(a, i) ==
    IF i = 0 THEN <<>>
    ELSE IF RoleHasLine(a, RoleOrder[i])
         THEN Append(TableLines(a, i - 1), RoleLine(a, RoleOrder[i]))
         ELSE TableLines(a, i - 1)

\* The architectures gpt_root_native has partition types for.
SupportedArchitectures == {"i386", "i486", "i586", "i686", "x86_64", "aarch64", "armv7l"}

\* gpt_root_native: the root and verity partition types of the architecture;
\* known is FALSE where it calls die("Unknown architecture").
gpt_root_native(arch, usr_only) ==
    [known |-> arch \in SupportedArchitectures, root |-> "root", verity |-> "verity"]

\* determine_partition_table: the script, run_sfdisk, and args with the
\* partition numbers assigned; died when the root line could not be written.
determine_partition_table(a) ==
    [died |-> ~is_generated_root(a) /\ ~gpt_root_native(a.architecture, a.usr_only).known,
     table |-> Script(None, a.gpt_first_lba, TableLines(a, Len(RoleOrder))),
     run_sfdisk |-> a.bootable \/ \E r \in {"swap", "home", "srv", "var", "tmp", "root"} :
                                      RoleRunsSfdisk(a, r),
     args |-> [a EXCEPT !.partno = [r \in DOMAIN a.partno |-> PartNoOf(a, r)]]]

\* image_size: what create_image truncates the new image file to.
image_size(a) ==
    LET gpt == PT_empty(a.gpt_first_lba)
        opt(x) == IF x # None THEN x ELSE 0
    IN first_usable_offset(gpt) + footer_size(gpt)
       + opt(a.root_size) + opt(a.home_size) + opt(a.srv_size)
       + opt(a.var_size) + opt(a.tmp_size)
       + (IF a.bootable /\ "uefi" \in a.boot_protocols THEN a.esp_size ELSE 0)
       + (IF a.bootable /\ "bios" \in a.boot_protocols THEN BIOS_PARTITION_SIZE ELSE 0)
       + opt(a.xbootldr_size) + opt(a.swap_size) + opt(a.verity_size)

\* ------------------------------------------------------------- the inputs
Roles == {RoleOrder[i] : i \in 1..Len(RoleOrder)}

\* A loaded configuration (load_args has run): sizes are set for the roles
\* that are configured, the partition numbers are not assigned yet.
Cfg(fmt, minimize, protocols, xbootldr, swap, vols, verity, encrypt, lba, split, incremental, script, secure_boot) ==
    [output_format |-> fmt, minimize |-> minimize, usr_only |-> FALSE,
     bootable |-> protocols # {}, boot_protocols |-> protocols,
     esp_size |-> IF protocols # {} THEN 8 * MiB ELSE None,
     xbootldr_size |-> IF xbootldr THEN 4 * MiB ELSE None,
     swap_size |-> IF swap THEN 4 * MiB ELSE None,
     home_size |-> IF "home" \in vols THEN 4 * MiB ELSE None,
     srv_size |-> IF "srv" \in vols THEN 4 * MiB ELSE None,
     var_size |-> IF "var" \in vols THEN 4 * MiB ELSE None,
     tmp_size |-> IF "tmp" \in vols THEN 4 * MiB ELSE None,
     root_size |-> 32 * MiB, verity_size |-> None,
     verity |-> verity, encrypt |-> encrypt, gpt_first_lba |-> lba,
     read_only |-> verity \/ is_squashfs(fmt),
     split_artifacts |-> split, incremental |-> incremental,
     build_script |-> script, secure_boot |-> secure_boot,
     with_unified_kernel_images |-> TRUE, skip_final_phase |-> FALSE,
     ran_sfdisk |-> FALSE, architecture |-> "x86_64",
     partno |-> [r \in Roles |-> None]]

\* The combinations load_args lets through.
ValidConfig(a) ==
    /\ a.bootable => is_disk(a.output_format)
    /\ a.minimize => can_minimize(a.output_format)
    /\ ~(is_generated_root(a) /\ a.incremental)
    /\ a.encrypt # "None" => is_disk(a.output_format)
    /\ ~(a.encrypt = "data" /\ a.output_format = "gpt_btrfs")
    /\ ~(a.encrypt = "all" /\ a.verity)
    /\ ~(is_generated_root(a) /\ "bios" \in a.boot_protocols)
    /\ a.split_artifacts => is_disk(a.output_format)
    /\ a.verity => is_disk(a.output_format)
    /\ a.secure_boot => a.bootable

VolumeSets == {v \in SUBSET DataVolumes : Cardinality(v) <= MaxDataVolumes}

ProtocolSets == {{}, {"uefi"}, {"bios"}, {"uefi", "bios"}}

\* Table layouts: every role combination, no encryption.
LayoutConfigs ==
    {Cfg(fmt, mini, pr, xb, sw, vols, ver, "None", lba, FALSE, FALSE, FALSE, FALSE) :
        fmt \in {"gpt_ext4", "gpt_btrfs", "gpt_squashfs"}, mini \in BOOLEAN,
        pr \in ProtocolSets, xb \in BOOLEAN, sw \in BOOLEAN, vols \in VolumeSets,
        ver \in BOOLEAN, lba \in {None, 34}}

\* Device stacks: encryption scopes over the data volumes.
StackConfigs ==
    {Cfg(fmt, mini, pr, FALSE, FALSE, vols, ver, enc, None, FALSE, incr, script, sb) :
        fmt \in {"gpt_ext4", "gpt_squashfs"}, mini \in BOOLEAN, pr \in {{}, {"uefi"}},
        vols \in VolumeSets, ver \in BOOLEAN, enc \in {"None", "all", "data"},
        incr \in BOOLEAN, script \in BOOLEAN, sb \in BOOLEAN}

\* Output bundles: disk, archive and tree formats.
BundleConfigs ==
    {Cfg(fmt, FALSE, pr, FALSE, FALSE, {}, ver, "None", None, split, incr, script, FALSE) :
        fmt \in {"gpt_ext4", "gpt_squashfs", "plain_squashfs", "tar", "directory"},
        pr \in {{}, {"uefi"}}, ver \in BOOLEAN, split \in BOOLEAN,
        incr \in BOOLEAN, script \in BOOLEAN}

\* Architectures: an architecture gpt_root_native has no partition type for,
\* with the root written by sfdisk, generated and inserted, or restored.
ArchConfigs ==
    {[Cfg(fmt, mini, pr, FALSE, FALSE, {}, ver, "None", None, FALSE, incr, FALSE, FALSE)
         EXCEPT !.architecture = "riscv64"] :
        fmt \in {"gpt_ext4", "gpt_squashfs", "tar"}, mini \in BOOLEAN,
        pr \in {{}, {"uefi"}}, ver \in BOOLEAN, incr \in BOOLEAN}

Configs ==
    {a \in LayoutConfigs \cup StackConfigs \cup BundleConfigs \cup ArchConfigs :
        ValidConfig(a)}

\* The sizes a generated file system or a verity blob may come out at.
BlobSizes == {k * 300000 + 123 : k \in 1..MaxBlobChoices}

\* Root hashes as veritysetup prints them: 64 lower-case hex digits.
RootHashFixture(k) == [i \in 1..64 |-> HexDigits[((i \div 3 + 5 * k) % 16) + 1]]

RootHashes == {RootHashFixture(k) : k \in 1..MaxHashes}

\* ------------------------------------------------------------------ state
VARIABLES
    args,        \* CommandLineArguments, with the fields a pass assigns
    ctx,         \* build_image's parameters: do_run_build_script, for_cache, cleanup
    pc,          \* where build_image (or a function it called) stands
    exc,         \* an exception is propagating through the with-scopes
    loc,         \* build_image's local variables
    raw,         \* the image file: present (raw is not None) and its size
    disk,        \* the partition table on the image
    kernelParts, \* how many partitions of the loop device the kernel knows
    loopdev,     \* the loop device is attached
    mappings,    \* the open decrypted mappings, by volume
    mounted,     \* the mounts under the root of the tree, in mount order
    held,        \* the with-scopes entered and not yet left, innermost last
    log,         \* the events of the pass, in order
    ip,          \* insert_partition's frame
    mnt,         \* mount_image's frame
    cachefs,     \* the cache artifacts cache_pre_dev and cache_pre_inst
    out,         \* the BuildOutput build_image returned
    stuff,       \* build_stuff's frame, per invocation
    tmpdirs,     \* the temporary directories setup_workspace has made
    flock        \* the holders of the exclusive flock, per directory

passVars == <<args, ctx, pc, exc, loc, raw, disk, kernelParts, loopdev, mappings,
              mounted, held, log, ip, mnt, cachefs, out>>

stuffVars == <<stuff, tmpdirs, flock>>

vars == <<passVars, stuffVars>>

Ev(e, a) == [ev |-> e, arg |-> a]

LuksVolumes == <<"root", "home", "srv", "var", "tmp">>

NoHash == <<>>

NoRaw == [present |-> FALSE, size |-> 0]

NoIp ==
    [partno |-> None, role |-> "none", blob |-> 0, read_only |-> FALSE,
     uuid_opt |-> NoUuid, ret |-> "none", attempts |-> 0, opened |-> FALSE,
     old_table |-> PT_empty(None), blob_size |-> 0, partition_offset |-> 0,
     new_size |-> 0]

NoMnt == [i |-> 0, ro |-> FALSE, ret |-> "none"]

NoArtifact == [present |-> FALSE]

\* A bundle assembled without the root hash.
BuildOutput_nohash(r, archive, root_hash, sshkey, split_root, split_verity, split_kernel) ==
    [raw |-> r, archive |-> archive, root_hash |-> <<>>, sshkey |-> sshkey,
     split_root |-> split_root, split_verity |-> split_verity,
     split_kernel |-> split_kernel]

BuildOutput(r, archive, root_hash, sshkey, split_root, split_verity, split_kernel) ==
    [raw |-> r, archive |-> archive, root_hash |-> root_hash, sshkey |-> sshkey,
     split_root |-> split_root, split_verity |-> split_verity,
     split_kernel |-> split_kernel]

BuildOutput_empty == BuildOutput(FALSE, FALSE, NoHash, FALSE, FALSE, FALSE, FALSE)

NotReturned == [returned |-> FALSE]

InitLoc ==
    [cached |-> FALSE, cached_tree |-> FALSE, generated_root |-> None,
     verity |-> None, root_hash |-> NoHash, split_root |-> FALSE,
     split_verity |-> FALSE, split_kernel |-> FALSE, sshkey |-> FALSE,
     encrypted |-> [v \in {"root", "home", "srv", "var", "tmp"} |-> "None"],
     luks_i |-> 1, kernel_i |-> 1, tree |-> {}, copied_cache |-> FALSE]

\* exec_sfdisk on an image of `bytes` bytes.
exec_sfdisk(a, d, bytes) ==
    LET t == determine_partition_table(a)
        r == SfdiskApply(t.table, bytes)
    IN [ok |-> ~t.run_sfdisk \/ r.ok,
        disk |-> IF t.run_sfdisk /\ r.ok THEN r.disk ELSE d,
        args |-> [t.args EXCEPT !.ran_sfdisk = t.run_sfdisk]]

\* args.cache_pre_dev if do_run_build_script else args.cache_pre_inst
CacheName(dev) == IF dev THEN "pre_dev" ELSE "pre_inst"

\* The image a cache-populate pass of this configuration leaves in the cache.
CachedImage(a) ==
    [present |-> TRUE, kind |-> "image", size |-> image_size(a),
     disk |-> exec_sfdisk(a, NoDisk, image_size(a)).disk]

CachedTree == [present |-> TRUE, kind |-> "tree"]

CacheArtifactOf(a) == IF is_disk_rw(a.output_format) THEN CachedImage(a) ELSE CachedTree

\* The passes build_stuff runs: (do_run_build_script, for_cache, cleanup).
Passes(a) ==
    {[dev |-> d, for_cache |-> c, cleanup |-> ~d /\ ~c] :
        d \in BOOLEAN, c \in {x \in BOOLEAN : x => a.incremental}}

InitPass ==
    /\ args \in Configs
    /\ ctx \in Passes(args)
    /\ cachefs \in [{"pre_dev", "pre_inst"} ->
                      IF args.incremental THEN {NoArtifact, CacheArtifactOf(args)}
                      ELSE {NoArtifact}]
    \* build_stuff has populated the cache before a pass that consumes it
    /\ args.incremental /\ ~ctx.for_cache => cachefs[CacheName(ctx.dev)].present
    /\ pc = "start"
    /\ exc = FALSE
    /\ loc = InitLoc
    /\ raw = NoRaw
    /\ disk = NoDisk
    /\ kernelParts = 0
    /\ loopdev = FALSE
    /\ mappings = {}
    /\ mounted = <<>>
    /\ held = <<>>
    /\ log = <<>>
    /\ ip = NoIp
    /\ mnt = NoMnt
    /\ out = NotReturned

\* ------------------------------------------------------- scopes and errors
\* Leaving the outermost scope first.
NextRelease_outermost(h) == 1

\* The with-scope a Python block leaves next: the innermost one.
NextRelease(h) == Len(h)

MappedMounts == {i \in 1..Len(mounted) : mounted[i].mapped}

\* What leaving the scope held[k] does to the devices: umount --recursive of
\* the tree, cryptsetup close (which fails while the mapping is mounted), or
\* losetup --detach (which only takes effect once nothing uses the device).
Release(k) ==
    LET r == held[k]
        busy == r.kind = "luks" /\ \E i \in MappedMounts : mounted[i].dev = r.vol
    IN /\ held' = SubSeq(held, 1, k - 1) \o SubSeq(held, k + 1, Len(held))
       /\ mounted' = IF r.kind = "mount" THEN <<>> ELSE mounted
       /\ mappings' = IF r.kind = "luks" /\ ~busy THEN mappings \ {r.vol} ELSE mappings
       /\ loopdev' = IF r.kind = "loop" /\ mappings = {} /\ mounted = <<>>
                     THEN FALSE ELSE loopdev
       /\ log' = Append(log, Ev(CASE r.kind = "mount" -> "umount"
                                  [] r.kind = "luks" -> "close"
                                  [] r.kind = "loop" -> "detach", r.vol))
       /\ exc' = (exc \/ busy)

Scope(kind, vol) == [kind |-> kind, vol |-> vol]

\* An exception unwinds through the scopes still held, then leaves build_image.
Unwind ==
    /\ pc = "unwind"
    /\ IF held # <<>>
       THEN /\ Release(NextRelease(held))
            /\ pc' = "unwind"
       ELSE /\ pc' = "raised"
            /\ UNCHANGED <<held, mounted, mappings, loopdev, log, exc>>
    /\ UNCHANGED <<args, ctx, loc, raw, disk, kernelParts, ip, mnt, cachefs, out>>

\* partition(loopdev, partno) is a device node only once the kernel has
\* scanned a table that holds the partition.
DevExists(p) == loopdev /\ p # None /\ p <= kernelParts

\* A step raises: the external tool it runs exits non-zero, or a Python
\* assertion or lookup in it fails.
Raise ==
    /\ pc' = "unwind"
    /\ exc' = TRUE

\* die("Unknown architecture ..."): the error is reported and propagates.
Die ==
    /\ Raise
    /\ log' = Append(log, Ev("die", "architecture"))

\* ------------------------------------------------------------- build_image
Start ==
    /\ pc = "start"
    /\ IF ~args.build_script /\ ctx.dev
       THEN pc' = "returned" /\ out' = BuildOutput_empty
       ELSE pc' = "reuse_cache_image" /\ out' = out
    /\ UNCHANGED <<args, ctx, exc, loc, raw, disk, kernelParts, loopdev, mappings,
                   mounted, held, log, ip, mnt, cachefs>>

\* A reuse that renames the artifact into the workspace instead of copying it.
reuse_cache_image_moving(a, c, fs) ==
    LET fname == CacheName(c.dev)
        t == determine_partition_table(a)
        nothing == [raw |-> NoRaw, disk |-> NoDisk, cached |-> FALSE, args |-> a,
                    fs |-> fs]
    IN IF ~a.incremental \/ ~is_disk_rw(a.output_format) THEN nothing
       ELSE IF c.for_cache THEN [nothing EXCEPT !.cached = fs[fname].present]
       ELSE IF ~fs[fname].present THEN nothing
       ELSE [raw |-> [present |-> TRUE, size |-> fs[fname].size],
             disk |-> fs[fname].disk, cached |-> TRUE,
             args |-> [t.args EXCEPT !.ran_sfdisk = t.run_sfdisk],
             fs |-> [fs EXCEPT ![fname] = NoArtifact]]

\* reuse_cache_image: (raw, cached), what it does to args, and the cache
\* directory it leaves (copy_image_temporary reads the artifact).
reuse_cache_image(a, c, fs) ==
    LET fname == CacheName(c.dev)
        t == determine_partition_table(a)
        nothing == [raw |-> NoRaw, disk |-> NoDisk, cached |-> FALSE, args |-> a,
                    fs |-> fs]
    IN IF ~a.incremental \/ ~is_disk_rw(a.output_format) THEN nothing
       ELSE IF c.for_cache THEN [nothing EXCEPT !.cached = fs[fname].present]
       ELSE IF ~fs[fname].present THEN nothing
       ELSE [raw |-> [present |-> TRUE, size |-> fs[fname].size],
             disk |-> fs[fname].disk, cached |-> TRUE,
             args |-> [t.args EXCEPT !.ran_sfdisk = t.run_sfdisk], fs |-> fs]

ReuseCacheImage ==
    /\ pc = "reuse_cache_image"
    /\ LET r == reuse_cache_image(args, ctx, cachefs)
       IN IF r.raw.present /\ determine_partition_table(args).died
          THEN Die /\ UNCHANGED <<raw, disk, args, cachefs, loc, out>>
          ELSE /\ raw' = r.raw
               /\ disk' = r.disk
               /\ args' = r.args
               /\ cachefs' = r.fs
               /\ loc' = [loc EXCEPT !.cached = r.cached]
               /\ IF ctx.for_cache /\ r.cached
                  THEN pc' = "returned" /\ out' = BuildOutput_empty
                  ELSE /\ pc' = IF r.cached THEN "refresh_partition_table"
                                ELSE "create_image"
                       /\ out' = out
               /\ UNCHANGED <<exc, log>>
    /\ UNCHANGED <<ctx, kernelParts, loopdev, mappings, mounted, held, ip, mnt>>

CreateImage ==
    /\ pc = "create_image"
    /\ IF ~is_disk(args.output_format)
       THEN /\ pc' = "attach"
            /\ UNCHANGED <<raw, disk, args, exc, log>>
       ELSE LET r == exec_sfdisk(args, NoDisk, image_size(args))
            IN /\ raw' = [present |-> TRUE, size |-> image_size(args)]
               /\ IF determine_partition_table(args).died
                  THEN Die /\ UNCHANGED <<disk, args>>
                  ELSE IF r.ok
                  THEN /\ disk' = r.disk /\ args' = r.args /\ pc' = "attach"
                       /\ UNCHANGED <<exc, log>>
                  ELSE Raise /\ UNCHANGED <<disk, args, log>>
    /\ UNCHANGED <<ctx, loc, kernelParts, loopdev, mappings, mounted, held,
                   ip, mnt, cachefs, out>>

RefreshPartitionTable ==
    /\ pc = "refresh_partition_table"
    /\ LET r == exec_sfdisk(args, disk, raw.size)
       IN IF determine_partition_table(args).died
          THEN Die /\ UNCHANGED <<disk, args>>
          ELSE IF r.ok
          THEN /\ disk' = r.disk /\ args' = r.args /\ pc' = "attach"
               /\ UNCHANGED <<exc, log>>
          ELSE Raise /\ UNCHANGED <<disk, args, log>>
    /\ UNCHANGED <<ctx, loc, raw, kernelParts, loopdev, mappings, mounted, held,
                   ip, mnt, cachefs, out>>

\* attach_image_loopback: losetup --partscan shows the kernel the table.
AttachImageLoopback ==
    /\ pc = "attach"
    /\ pc' = "prepare_boot"
    /\ IF raw.present
       THEN /\ loopdev' = TRUE
            /\ kernelParts' = Len(disk.parts)
            /\ held' = Append(held, Scope("loop", "loop"))
            /\ log' = Append(log, Ev("attach", "loop"))
       ELSE UNCHANGED <<loopdev, kernelParts, held, log>>
    /\ UNCHANGED <<args, ctx, exc, loc, raw, disk, mappings, mounted, ip, mnt,
                   cachefs, out>>

\* The roles among rs a format step has a partition for.
WithPartition(rs) == {r \in rs : args.partno[r] # None}

\* prepare_swap, prepare_esp, prepare_xbootldr.
BootFormats ==
    IF ~loopdev \/ loc.cached THEN {} ELSE WithPartition({"swap", "esp", "xbootldr"})

RECURSIVE EventsOf(_, _, _)
EventsOf(e, order, rs) ==
    IF order = <<>> THEN <<>>
    ELSE (IF order[1] \in rs THEN <<Ev(e, order[1])>> ELSE <<>>)
         \o EventsOf(e, Tail(order), rs)

PrepareBoot ==
    /\ pc = "prepare_boot"
    /\ IF \A r \in BootFormats : DevExists(args.partno[r])
       THEN /\ log' = log \o EventsOf("mkfs", <<"swap", "esp", "xbootldr">>, BootFormats)
            /\ pc' = "luks_format"
            /\ exc' = exc
       ELSE Raise /\ log' = log
    /\ UNCHANGED <<args, ctx, loc, raw, disk, kernelParts, loopdev, mappings, mounted,
                   held, ip, mnt, cachefs, out>>

\* A scope test that opens the mappings in a development pass too.
InLuksScope_dev(vol, dev, inserting_generated_root) ==
    /\ IF vol = "root" THEN args.encrypt = "all" ELSE args.encrypt # "None"
    /\ args.partno[vol] # None
    /\ vol = "root" => ~(is_generated_root(args) /\ ~inserting_generated_root)

\* The scope of luks_format_<vol> and luks_setup_<vol>, but for the cached test.
InLuksScope(vol, dev, inserting_generated_root) ==
    /\ IF vol = "root" THEN args.encrypt = "all" ELSE args.encrypt # "None"
    /\ args.partno[vol] # None
    /\ vol = "root" => ~(is_generated_root(args) /\ ~inserting_generated_root)
    /\ ~dev

LuksFormats ==
    IF ~loopdev THEN {}
    ELSE {v \in {"root", "home", "srv", "var", "tmp"} :
            InLuksScope(v, ctx.dev, FALSE) /\ ~loc.cached}

LuksFormat ==
    /\ pc = "luks_format"
    /\ IF \A r \in LuksFormats : DevExists(args.partno[r])
       THEN /\ log' = log \o EventsOf("luksFormat", LuksVolumes, LuksFormats)
            /\ pc' = "luks_setup"
            /\ exc' = exc
       ELSE Raise /\ log' = log
    /\ UNCHANGED <<args, ctx, loc, raw, disk, kernelParts, loopdev, mappings, mounted,
                   held, ip, mnt, cachefs, out>>

\* luks_setup_all enters luks_setup_root, _home, _srv, _var, _tmp in this
\* order, each a luks_open or a nullcontext.
LuksSetupStep ==
    /\ pc = "luks_setup"
    /\ is_disk(args.output_format)
    /\ loc.luks_i <= Len(LuksVolumes)
    /\ LET v == LuksVolumes[loc.luks_i]
       IN IF InLuksScope(v, ctx.dev, FALSE)
          THEN IF DevExists(args.partno[v])
               THEN /\ mappings' = mappings \cup {v}
                    /\ held' = Append(held, Scope("luks", v))
                    /\ log' = Append(log, Ev("open", v))
                    /\ loc' = [loc EXCEPT !.luks_i = @ + 1]
                    /\ UNCHANGED <<pc, exc>>
               ELSE Raise /\ UNCHANGED <<mappings, held, log, loc>>
          ELSE /\ loc' = [loc EXCEPT !.luks_i = @ + 1]
               /\ UNCHANGED <<mappings, held, log, pc, exc>>
    /\ UNCHANGED <<args, ctx, raw, disk, kernelParts, loopdev, mounted, ip, mnt,
                   cachefs, out>>

\* The LuksSetupOutput luks_setup_all yields: the mapping, the raw partition
\* path, or None.
LuksSetupOutput ==
    [v \in {"root", "home", "srv", "var", "tmp"} |->
        IF ~is_disk(args.output_format) THEN "None"
        ELSE IF \E k \in 1..Len(held) : held[k] = Scope("luks", v) THEN "mapped"
        ELSE IF args.partno[v] # None THEN "raw" ELSE "None"]

LuksSetupYield ==
    /\ pc = "luks_setup"
    /\ ~is_disk(args.output_format) \/ loc.luks_i > Len(LuksVolumes)
    /\ loc' = [loc EXCEPT !.encrypted = LuksSetupOutput]
    /\ pc' = "prepare_data"
    /\ UNCHANGED <<args, ctx, exc, raw, disk, kernelParts, loopdev, mappings, mounted,
                   held, log, ip, mnt, cachefs, out>>

\* A volume handle names a device node that is there.
HandleExists(v) ==
    loc.encrypted[v] = "mapped" \/ (loc.encrypted[v] = "raw" /\ DevExists(args.partno[v]))

\* A prepare step that formats the volumes of a cached image too.
DataFormats_uncached ==
    {v \in {"root", "home", "srv", "var", "tmp"} :
        /\ loc.encrypted[v] # "None"
        /\ v = "root" => ~is_generated_root(args)}

\* prepare_root, prepare_home, prepare_srv, prepare_var, prepare_tmp.
DataFormats ==
    {v \in {"root", "home", "srv", "var", "tmp"} :
        /\ loc.encrypted[v] # "None"
        /\ ~loc.cached
        /\ v = "root" => ~is_generated_root(args)}

\* refresh_file_system of every handle.
Refreshes ==
    {v \in {"root", "home", "srv", "var", "tmp"} :
        /\ loc.encrypted[v] # "None"
        /\ loc.cached
        /\ args.output_format \in {"gpt_btrfs", "gpt_ext4", "gpt_xfs"}}

PrepareData ==
    /\ pc = "prepare_data"
    /\ IF \A v \in DataFormats \cup Refreshes : HandleExists(v)
       THEN /\ log' = log \o EventsOf("mkfs", LuksVolumes, DataFormats)
                          \o EventsOf("refresh", LuksVolumes, Refreshes)
            /\ pc' = "mount_image"
            /\ mnt' = [i |-> 1, ro |-> FALSE, ret |-> "tree_install"]
            /\ exc' = exc
       ELSE Raise /\ UNCHANGED <<log, mnt>>
    /\ UNCHANGED <<args, ctx, loc, raw, disk, kernelParts, loopdev, mappings, mounted,
                   held, ip, cachefs, out>>

\* ------------------------------------------------------------- mount_image
MountSteps == <<"root", "home", "srv", "var", "tmp", "esp", "xbootldr", "run", "tmpfs">>

\* encrypted.without_generated_root(args)
MountHandle(v) ==
    IF v = "root" /\ is_generated_root(args) THEN "None" ELSE loc.encrypted[v]

\* A mount_image that does not hand root_read_only to mount_loop.
MountOf_rw(where, ro) ==
    CASE where = "root" ->
            IF MountHandle("root") # "None"
            THEN [where |-> "root", dev |-> "root",
                  mapped |-> MountHandle("root") = "mapped", ro |-> FALSE]
            ELSE [where |-> "root", dev |-> "bind", mapped |-> FALSE, ro |-> FALSE]
      [] where \in {"home", "srv", "var", "tmp"} ->
            IF MountHandle(where) # "None"
            THEN [where |-> where, dev |-> where,
                  mapped |-> MountHandle(where) = "mapped", ro |-> FALSE]
            ELSE [where |-> "none"]
      [] where \in {"esp", "xbootldr"} ->
            IF args.partno[where] # None /\ loopdev
            THEN [where |-> where, dev |-> where, mapped |-> FALSE, ro |-> FALSE]
            ELSE [where |-> "none"]
      [] OTHER -> [where |-> where, dev |-> "tmpfs", mapped |-> FALSE, ro |-> FALSE]

\* What mount step `where` mounts: the mount entry, or no mount at all.
MountOf(where, ro) ==
    CASE where = "root" ->
            IF MountHandle("root") # "None"
            THEN [where |-> "root", dev |-> "root",
                  mapped |-> MountHandle("root") = "mapped", ro |-> ro]
            ELSE [where |-> "root", dev |-> "bind", mapped |-> FALSE, ro |-> FALSE]
      [] where \in {"home", "srv", "var", "tmp"} ->
            IF MountHandle(where) # "None"
            THEN [where |-> where, dev |-> where,
                  mapped |-> MountHandle(where) = "mapped", ro |-> FALSE]
            ELSE [where |-> "none"]
      [] where \in {"esp", "xbootldr"} ->
            IF args.partno[where] # None /\ loopdev
            THEN [where |-> where, dev |-> where, mapped |-> FALSE, ro |-> FALSE]
            ELSE [where |-> "none"]
      [] OTHER -> [where |-> where, dev |-> "tmpfs", mapped |-> FALSE, ro |-> FALSE]

\* The device a mount entry needs is there.
MountDevExists(m) ==
    \/ m.dev \in {"bind", "tmpfs"}
    \/ m.mapped
    \/ DevExists(args.partno[m.dev])

\* One mount call of mount_image, in the order of MountSteps.
MountStep ==
    /\ pc = "mount_image"
    /\ mnt.i <= Len(MountSteps)
    /\ LET m == MountOf(MountSteps[mnt.i], mnt.ro)
       IN IF m.where = "none"
          THEN mnt' = [mnt EXCEPT !.i = @ + 1] /\ UNCHANGED <<mounted, pc, exc>>
          ELSE IF MountDevExists(m)
               THEN /\ mounted' = Append(mounted, m)
                    /\ mnt' = [mnt EXCEPT !.i = @ + 1]
                    /\ UNCHANGED <<pc, exc>>
               ELSE Raise /\ UNCHANGED <<mounted, mnt>>
    /\ UNCHANGED <<args, ctx, loc, raw, disk, kernelParts, loopdev, mappings, held,
                   log, ip, cachefs, out>>

\* All mounts are made: the scope is entered and the body runs.
MountYield ==
    /\ pc = "mount_image"
    /\ mnt.i > Len(MountSteps)
    /\ held' = Append(held, Scope("mount", "tree"))
    /\ log' = Append(log, Ev("mount", IF mnt.ro THEN "ro" ELSE "rw"))
    /\ pc' = mnt.ret
    /\ mnt' = NoMnt
    /\ UNCHANGED <<args, ctx, exc, loc, raw, disk, kernelParts, loopdev, mappings,
                   mounted, ip, cachefs, out>>

\* ------------------------------------------------- the tree, inside the mount
\* reuse_cache_tree: the flag it returns, whether it copied a cached tree, and
\* the cache directory it leaves (copy_path reads the artifact).
reuse_cache_tree(a, c, cached, fs) ==
    LET fname == CacheName(c.dev)
    IN IF cached THEN [cached_tree |-> TRUE, copied |-> FALSE, fs |-> fs]
       ELSE IF ~a.incremental \/ c.for_cache \/ is_disk_rw(a.output_format)
       THEN [cached_tree |-> FALSE, copied |-> FALSE, fs |-> fs]
       ELSE [cached_tree |-> TRUE, copied |-> fs[fname].present, fs |-> fs]

\* The steps of lines 6564-6585 that change the tree, every optional tree,
\* script and setting being configured.
TreeInstallOps(a, c, cached, cached_tree) ==
    {op \in {"prepare_tree", "skeleton_trees", "distribution", "hostname",
             "boot_loader", "prepare_script", "build_src", "build_dest",
             "extra_trees", "root_password", "serial_terminal", "autologin",
             "ssh", "network_veth", "postinst_script"} :
        CASE op = "prepare_tree" -> ~cached
          [] op \in {"skeleton_trees", "distribution", "hostname", "prepare_script"} ->
                ~cached_tree
          [] op = "boot_loader" -> a.bootable /\ ~c.dev /\ ~cached_tree
          [] op = "build_src" -> ~c.for_cache /\ a.build_script
          [] op = "build_dest" -> ~c.dev /\ ~c.for_cache /\ a.build_script
          [] op \in {"extra_trees", "postinst_script"} -> ~c.for_cache
          [] op \in {"root_password", "serial_terminal", "autologin", "network_veth"} ->
                ~c.dev /\ ~cached_tree
          [] op = "ssh" -> ~c.dev /\ ~c.for_cache}

\* A cleanup that does not look at for_cache.
TreeCleanupOps_unguarded(a, c) ==
    {op \in {"clean_package_metadata", "remove_files", "reset_machine_id",
             "reset_random_seed", "finalize_script", "fstrim", "make_read_only"} :
        CASE op \in {"clean_package_metadata", "remove_files"} -> c.cleanup
          [] op = "reset_machine_id" -> ~c.dev
          [] op = "reset_random_seed" -> TRUE
          [] op = "finalize_script" -> TRUE
          [] op = "fstrim" -> ~c.dev /\ ~is_generated_root(a) /\ is_disk(a.output_format)
          [] op = "make_read_only" ->
                /\ a.read_only /\ is_btrfs(a.output_format) /\ ~is_generated_root(a)}

\* The steps of lines 6591-6598.
TreeCleanupOps(a, c) ==
    {op \in {"clean_package_metadata", "remove_files", "reset_machine_id",
             "reset_random_seed", "finalize_script", "fstrim", "make_read_only"} :
        CASE op \in {"clean_package_metadata", "remove_files"} -> c.cleanup
          [] op = "reset_machine_id" -> ~c.dev /\ ~c.for_cache
          [] op = "reset_random_seed" -> TRUE
          [] op = "finalize_script" -> ~c.for_cache
          [] op = "fstrim" ->
                ~c.dev /\ ~is_generated_root(a) /\ is_disk(a.output_format) /\ ~c.for_cache
          [] op = "make_read_only" ->
                /\ a.read_only /\ ~c.for_cache /\ is_btrfs(a.output_format)
                /\ ~is_generated_root(a)}

TreeInstall ==
    /\ pc = "tree_install"
    /\ LET r == reuse_cache_tree(args, ctx, loc.cached, cachefs)
       IN /\ loc' = [loc EXCEPT !.cached_tree = r.cached_tree,
                                !.copied_cache = r.copied,
                                !.tree = TreeInstallOps(args, ctx, loc.cached, r.cached_tree),
                                !.sshkey = ~ctx.dev /\ ~ctx.for_cache]
          /\ cachefs' = r.fs
    /\ pc' = "tree_cleanup"
    /\ UNCHANGED <<args, ctx, exc, raw, disk, kernelParts, loopdev, mappings, mounted,
                   held, log, ip, mnt, out>>

TreeCleanup ==
    /\ pc = "tree_cleanup"
    /\ loc' = [loc EXCEPT !.tree = @ \cup TreeCleanupOps(args, ctx)]
    /\ pc' = "exit_mount"
    /\ UNCHANGED <<args, ctx, exc, raw, disk, kernelParts, loopdev, mappings, mounted,
                   held, log, ip, mnt, cachefs, out>>

\* The first mount_image scope is left.
ExitMount ==
    /\ pc = "exit_mount"
    /\ Release(NextRelease(held))
    /\ pc' = IF exc' THEN "unwind" ELSE "make_generated_root"
    /\ UNCHANGED <<args, ctx, loc, raw, disk, kernelParts, ip, mnt, cachefs, out>>

\* make_generated_root: the file system blob built from the tree, or None.
MakeGeneratedRoot ==
    /\ pc = "make_generated_root"
    /\ IF is_generated_root(args) /\ ~ctx.for_cache
          /\ args.output_format \in {"gpt_ext4", "gpt_btrfs", "gpt_squashfs", "plain_squashfs"}
       THEN \E b \in BlobSizes : loc' = [loc EXCEPT !.generated_root = b]
       ELSE loc' = loc
    /\ pc' = "insert_generated_root"
    /\ UNCHANGED <<args, ctx, exc, raw, disk, kernelParts, loopdev, mappings, mounted,
                   held, log, ip, mnt, cachefs, out>>

\* A call of insert_partition: the frame, entered at its first line.
CallInsertPartition(role, blob, read_only, uuid_opt, ret) ==
    /\ ip' = [NoIp EXCEPT !.partno = args.partno[role], !.role = role, !.blob = blob,
                          !.read_only = read_only, !.uuid_opt = uuid_opt, !.ret = ret]
    /\ pc' = "ip_read"

InsertGeneratedRoot ==
    /\ pc = "insert_generated_root"
    /\ IF is_generated_root(args) /\ is_disk(args.output_format) /\ ~ctx.for_cache
       THEN IF raw.present /\ loopdev /\ loc.generated_root # None
               /\ args.partno["root"] # None
            THEN IF gpt_root_native(args.architecture, args.usr_only).known
                 THEN /\ CallInsertPartition("root", loc.generated_root, args.read_only,
                                             NoUuid, "root_inserted")
                      /\ UNCHANGED <<exc, log>>
                 ELSE Die /\ ip' = ip
            ELSE Raise /\ UNCHANGED <<ip, log>>
       ELSE pc' = "split_root" /\ UNCHANGED <<ip, exc, log>>
    /\ UNCHANGED <<args, ctx, loc, raw, disk, kernelParts, loopdev, mappings, mounted,
                   held, mnt, cachefs, out>>

\* insert_generated_root stores what insert_partition returned.
RootInserted ==
    /\ pc = "root_inserted"
    /\ args' = [args EXCEPT !.root_size = ip.blob_size]
    /\ ip' = NoIp
    /\ pc' = "split_root"
    /\ UNCHANGED <<ctx, exc, loc, raw, disk, kernelParts, loopdev, mappings, mounted,
                   held, log, mnt, cachefs, out>>

\* -------------------------------------------------------- insert_partition
\* Lines 3685-3694: the old table, then the sizes computed from it.
luks_extra(a) == IF a.encrypt = "all" THEN LUKS_EXTRA ELSE 0

\* A size that leaves no room for the backup table.
new_size_nofooter(old_table, blob_size, a) ==
    roundup(first_usable_offset(old_table) + blob_size + luks_extra(a), 4096)

new_size(old_table, blob_size, a) ==
    roundup(first_usable_offset(old_table) + blob_size + luks_extra(a)
            + footer_size(old_table), 4096)

IpRead ==
    /\ pc = "ip_read"
    /\ LET old == IF args.ran_sfdisk THEN PT_read(SfdiskDump(disk))
                  ELSE PT_empty(args.gpt_first_lba)
           bs == roundup(ip.blob, 512)
       IN ip' = [ip EXCEPT !.old_table = old, !.blob_size = bs,
                           !.partition_offset = first_usable_offset(old),
                           !.new_size = new_size(old, bs, args)]
    /\ pc' = "ip_resize"
    /\ UNCHANGED <<args, ctx, exc, loc, raw, disk, kernelParts, loopdev, mappings,
                   mounted, held, log, mnt, cachefs, out>>

\* os.truncate and losetup --set-capacity.
IpResize ==
    /\ pc = "ip_resize"
    /\ raw' = [raw EXCEPT !.size = ip.new_size]
    /\ log' = Append(log, Ev("resize", ip.role))
    /\ pc' = "ip_sfdisk"
    /\ UNCHANGED <<args, ctx, exc, loc, disk, kernelParts, loopdev, mappings, mounted,
                   held, ip, mnt, cachefs, out>>

\* Lines 3705-3728: the script insert_partition hands to sfdisk.
NewLine(f) ==
    Line(None, (f.blob_size + luks_extra(args)) \div 512, f.role,
         IF f.read_only THEN "GUID:60" ELSE "", f.role,
         IF f.uuid_opt # NoUuid THEN UuidStr(f.uuid_opt) ELSE NoUuid)

\* A script that does not replay the lines of the old table.
InsertTable_fresh(f) ==
    Script(f.old_table.grain,
           IF args.gpt_first_lba # None THEN args.gpt_first_lba
           ELSE IF f.old_table.partitions # <<>> THEN None
           ELSE f.partition_offset \div f.old_table.sector_size,
           <<NewLine(f)>>)

InsertTable(f) ==
    Script(f.old_table.grain,
           IF args.gpt_first_lba # None THEN args.gpt_first_lba
           ELSE IF f.old_table.partitions # <<>> THEN None
           ELSE f.partition_offset \div f.old_table.sector_size,
           f.old_table.partitions \o <<NewLine(f)>>)

\* An insertion that sets ran_sfdisk as soon as sfdisk has run.
IpSfdisk_flagged ==
    /\ pc = "ip_sfdisk"
    /\ LET r == SfdiskApply(InsertTable(ip), raw.size)
       IN IF r.ok
          THEN /\ disk' = r.disk
               /\ args' = [args EXCEPT !.ran_sfdisk = TRUE]
               /\ log' = Append(log, Ev("sfdisk", ip.role))
               /\ pc' = "ip_reread"
               /\ ip' = [ip EXCEPT !.attempts = 1]
               /\ exc' = exc
          ELSE Raise /\ UNCHANGED <<disk, args, log, ip>>
    /\ UNCHANGED <<ctx, loc, raw, kernelParts, loopdev, mappings, mounted, held,
                   mnt, cachefs, out>>

\* sfdisk --no-reread --no-tell-kernel: the table on the image changes, the
\* kernel's view does not.
IpSfdisk ==
    /\ pc = "ip_sfdisk"
    /\ LET r == SfdiskApply(InsertTable(ip), raw.size)
       IN IF r.ok
          THEN /\ disk' = r.disk
               /\ log' = Append(log, Ev("sfdisk", ip.role))
               /\ pc' = "ip_reread"
               /\ ip' = [ip EXCEPT !.attempts = 1]
               /\ exc' = exc
          ELSE Raise /\ UNCHANGED <<disk, log, ip>>
    /\ UNCHANGED <<args, ctx, loc, raw, kernelParts, loopdev, mappings, mounted, held,
                   mnt, cachefs, out>>

\* run_with_backoff(blockdev --rereadpt): an attempt finds the device busy ...
IpRereadBusy ==
    /\ pc = "ip_reread"
    /\ IF ip.attempts < REREAD_ATTEMPTS
       THEN ip' = [ip EXCEPT !.attempts = @ + 1] /\ UNCHANGED <<pc, exc>>
       ELSE Raise /\ ip' = ip
    /\ UNCHANGED <<args, ctx, loc, raw, disk, kernelParts, loopdev, mappings, mounted,
                   held, log, mnt, cachefs, out>>

\* ... or succeeds: the kernel now knows the partitions of the table.
IpRereadOk ==
    /\ pc = "ip_reread"
    /\ kernelParts' = Len(disk.parts)
    /\ log' = Append(log, Ev("rereadpt", ip.role))
    /\ ip' = [ip EXCEPT !.attempts = 0]
    /\ pc' = "ip_luks"
    /\ UNCHANGED <<args, ctx, exc, loc, raw, disk, loopdev, mappings, mounted, held,
                   mnt, cachefs, out>>

\* Lines 3740-3744: a root partition in the encryption scope is formatted
\* and opened for the write.
IpLuks ==
    /\ pc = "ip_luks"
    /\ IF args.partno["root"] = ip.partno /\ InLuksScope("root", FALSE, TRUE)
       THEN IF DevExists(ip.partno)
            THEN /\ mappings' = mappings \cup {"root"}
                 /\ held' = Append(held, Scope("luks", "root"))
                 /\ log' = log \o <<Ev("luksFormat", "root"), Ev("open", "root")>>
                 /\ ip' = [ip EXCEPT !.opened = TRUE]
                 /\ pc' = "ip_dd"
                 /\ exc' = exc
            ELSE Raise /\ UNCHANGED <<mappings, held, log, ip>>
       ELSE pc' = "ip_dd" /\ UNCHANGED <<mappings, held, log, ip, exc>>
    /\ UNCHANGED <<args, ctx, loc, raw, disk, kernelParts, loopdev, mounted, mnt,
                   cachefs, out>>

\* dd of the blob to the mapping or to partition(loopdev, partno).
IpDd ==
    /\ pc = "ip_dd"
    /\ IF ip.opened \/ DevExists(ip.partno)
       THEN /\ log' = Append(log, Ev("dd", ip.role))
            /\ pc' = IF ip.opened THEN "ip_close" ELSE "ip_done"
            /\ exc' = exc
       ELSE Raise /\ log' = log
    /\ UNCHANGED <<args, ctx, loc, raw, disk, kernelParts, loopdev, mappings, mounted,
                   held, ip, mnt, cachefs>>
    /\ out' = out

\* The mapping opened for the write is closed.
IpClose ==
    /\ pc = "ip_close"
    /\ Release(NextRelease(held))
    /\ ip' = [ip EXCEPT !.opened = FALSE]
    /\ pc' = IF exc' THEN "unwind" ELSE "ip_done"
    /\ UNCHANGED <<args, ctx, loc, raw, disk, kernelParts, mnt, cachefs, out>>

\* Lines 3750-3752.
IpReturn ==
    /\ pc = "ip_done"
    /\ args' = [args EXCEPT !.ran_sfdisk = TRUE]
    /\ pc' = ip.ret
    /\ UNCHANGED <<ctx, exc, loc, raw, disk, kernelParts, loopdev, mappings, mounted,
                   held, log, ip, mnt, cachefs, out>>

\* ----------------------------------------------- build_image, lines 6602-6611
\* split_root: the generated root, or extract_partition's dd of the root volume.
SplitRoot ==
    /\ pc = "split_root"
    /\ IF args.split_artifacts /\ loc.generated_root = None /\ ~ctx.dev /\ ~ctx.for_cache
       THEN IF HandleExists("root")
            THEN /\ loc' = [loc EXCEPT !.split_root = TRUE]
                 /\ log' = Append(log, Ev("extract", "root"))
                 /\ pc' = "make_verity"
                 /\ exc' = exc
            ELSE Raise /\ UNCHANGED <<loc, log>>
       ELSE /\ loc' = [loc EXCEPT !.split_root =
                          args.split_artifacts /\ loc.generated_root # None]
            /\ pc' = "make_verity"
            /\ UNCHANGED <<log, exc>>
    /\ UNCHANGED <<args, ctx, raw, disk, kernelParts, loopdev, mappings, mounted, held,
                   ip, mnt, cachefs, out>>

\* make_verity: veritysetup format writes the hash tree and prints the root hash.
MakeVerity ==
    /\ pc = "make_verity"
    /\ IF ctx.dev \/ ~args.verity \/ ctx.for_cache
       THEN pc' = "patch_root_uuid" /\ UNCHANGED <<loc, log, exc>>
       ELSE IF HandleExists("root")
            THEN /\ \E b \in BlobSizes, h \in RootHashes :
                       loc' = [loc EXCEPT !.verity = b, !.root_hash = h]
                 /\ log' = Append(log, Ev("veritysetup", "root"))
                 /\ pc' = "patch_root_uuid"
                 /\ exc' = exc
            ELSE Raise /\ UNCHANGED <<loc, log>>
    /\ UNCHANGED <<args, ctx, raw, disk, kernelParts, loopdev, mappings, mounted, held,
                   ip, mnt, cachefs, out>>

\* sfdisk --part-uuid <dev> <partno> <uuid>
SfdiskPartUuid(d, partno, text) ==
    [d EXCEPT !.parts = [@ EXCEPT ![partno] = [@ EXCEPT !.uuid = SfdiskParseUuid(text)]]]

\* A patch step that returns before it runs sfdisk.
PatchRootUuid_skipped ==
    /\ pc = "patch_root_uuid"
    /\ pc' = "insert_verity"
    /\ UNCHANGED <<args, ctx, exc, loc, raw, disk, kernelParts, loopdev, mappings,
                   mounted, held, log, ip, mnt, cachefs, out>>

PatchRootUuid ==
    /\ pc = "patch_root_uuid"
    /\ IF loc.root_hash = NoHash \/ ctx.for_cache
       THEN pc' = "insert_verity" /\ UNCHANGED <<disk, log, exc>>
       ELSE IF loopdev /\ args.partno["root"] <= Len(disk.parts)
            THEN /\ disk' = SfdiskPartUuid(disk, args.partno["root"],
                                           UuidStr(UUID(PyHead(loc.root_hash, 32))))
                 /\ log' = Append(log, Ev("part_uuid", "root"))
                 /\ pc' = "insert_verity"
                 /\ exc' = exc
            ELSE Raise /\ UNCHANGED <<disk, log>>
    /\ UNCHANGED <<args, ctx, loc, raw, kernelParts, loopdev, mappings, mounted, held,
                   ip, mnt, cachefs, out>>

InsertVerity ==
    /\ pc = "insert_verity"
    /\ IF loc.verity = None \/ ctx.for_cache
       THEN pc' = "verity_inserted" /\ UNCHANGED <<ip, exc, log>>
       ELSE IF loopdev /\ raw.present /\ loc.root_hash # NoHash
               /\ args.partno["verity"] # None
            THEN IF gpt_root_native(args.architecture, args.usr_only).known
                 THEN /\ CallInsertPartition("verity", loc.verity, TRUE,
                                             UUID(PyTail(loc.root_hash, 32)),
                                             "verity_inserted")
                      /\ UNCHANGED <<exc, log>>
                 ELSE Die /\ ip' = ip
            ELSE Raise /\ UNCHANGED <<ip, log>>
    /\ UNCHANGED <<args, ctx, loc, raw, disk, kernelParts, loopdev, mappings, mounted,
                   held, mnt, cachefs, out>>

\* A split verity artifact kept whether or not split artifacts were asked for.
VerityInserted_unasked ==
    /\ pc = "verity_inserted"
    /\ loc' = [loc EXCEPT !.split_verity = loc.verity # None]
    /\ ip' = NoIp
    /\ pc' = "kernel"
    /\ UNCHANGED <<args, ctx, exc, raw, disk, kernelParts, loopdev, mappings, mounted,
                   held, log, mnt, cachefs, out>>

VerityInserted ==
    /\ pc = "verity_inserted"
    /\ loc' = [loc EXCEPT !.split_verity = args.split_artifacts /\ loc.verity # None]
    /\ ip' = NoIp
    /\ pc' = "kernel"
    /\ UNCHANGED <<args, ctx, exc, raw, disk, kernelParts, loopdev, mappings, mounted,
                   held, log, mnt, cachefs, out>>

\* ----------------------------------------------- build_image, lines 6616-6630
KernelSteps == <<"install_unified_kernel", "secure_boot_sign", "extract_unified_kernel">>

\* Whether the step gets past its early returns and enters mount().
KernelStepRuns(step) ==
    CASE step = "install_unified_kernel" ->
            /\ args.bootable /\ args.partno["esp"] # None
            /\ args.with_unified_kernel_images /\ ~ctx.for_cache /\ ~ctx.dev
      [] step = "secure_boot_sign" ->
            /\ ~ctx.dev /\ args.bootable /\ args.secure_boot
            /\ ~(ctx.for_cache /\ args.verity) /\ ~(loc.cached /\ ~args.verity)
      [] step = "extract_unified_kernel" ->
            ~ctx.dev /\ ~ctx.for_cache /\ args.split_artifacts /\ args.bootable

Kernel ==
    /\ pc = "kernel"
    /\ IF loc.kernel_i > Len(KernelSteps)
       THEN pc' = "exit_scopes" /\ UNCHANGED <<loc, mnt>>
       ELSE IF KernelStepRuns(KernelSteps[loc.kernel_i])
            THEN /\ mnt' = [i |-> 1, ro |-> TRUE, ret |-> "kernel_body"]
                 /\ pc' = "mount_image"
                 /\ loc' = loc
            ELSE /\ loc' = [loc EXCEPT !.kernel_i = @ + 1]
                 /\ UNCHANGED <<pc, mnt>>
    /\ UNCHANGED <<args, ctx, exc, raw, disk, kernelParts, loopdev, mappings, mounted,
                   held, log, ip, cachefs, out>>

\* The body of the step, then the mount() scope is left.
KernelBody ==
    /\ pc = "kernel_body"
    /\ log' = Append(log, Ev(KernelSteps[loc.kernel_i], "tree"))
    /\ loc' = [loc EXCEPT !.split_kernel =
                  @ \/ KernelSteps[loc.kernel_i] = "extract_unified_kernel"]
    /\ pc' = "kernel_exit"
    /\ UNCHANGED <<args, ctx, exc, raw, disk, kernelParts, loopdev, mappings, mounted,
                   held, ip, mnt, cachefs, out>>

KernelExit ==
    /\ pc = "kernel_exit"
    /\ Release(NextRelease(held))
    /\ loc' = [loc EXCEPT !.kernel_i = @ + 1]
    /\ pc' = IF exc' THEN "unwind" ELSE "kernel"
    /\ UNCHANGED <<args, ctx, raw, disk, kernelParts, ip, mnt, cachefs, out>>

\* The luks_setup_all and attach_image_loopback scopes are left.
ExitScopes ==
    /\ pc = "exit_scopes"
    /\ IF held # <<>>
       THEN /\ Release(NextRelease(held))
            /\ pc' = IF exc' THEN "unwind" ELSE "exit_scopes"
       ELSE /\ pc' = "archive"
            /\ UNCHANGED <<held, mounted, mappings, loopdev, log, exc>>
    /\ UNCHANGED <<args, ctx, loc, raw, disk, kernelParts, ip, mnt, cachefs, out>>

\* An archive made whatever the output format is.
MakesArchive_always(a, c) == ~c.dev /\ ~c.for_cache

\* make_tar or make_cpio, and the BuildOutput returned.
MakesArchive(a, c) == ~c.dev /\ ~c.for_cache /\ a.output_format \in {"tar", "cpio"}

Return ==
    /\ pc = "archive"
    /\ out' = BuildOutput(raw.present \/ loc.generated_root # None,
                          MakesArchive(args, ctx), loc.root_hash, loc.sshkey,
                          loc.split_root, loc.split_verity, loc.split_kernel)
    /\ pc' = "returned"
    /\ UNCHANGED <<args, ctx, exc, loc, raw, disk, kernelParts, loopdev, mappings,
                   mounted, held, log, ip, mnt, cachefs>>

\* btrfs_forget_stale_devices: build_stuff's finally, reached when the pass
\* has returned or raised.
BtrfsForgetStaleDevices ==
    /\ pc \in {"returned", "raised"}
    /\ log' = IF is_btrfs(args.output_format) THEN Append(log, Ev("rescan", "btrfs")) ELSE log
    /\ pc' = IF pc = "returned" THEN "done" ELSE "died"
    /\ UNCHANGED <<args, ctx, exc, loc, raw, disk, kernelParts, loopdev, mappings,
                   mounted, held, ip, mnt, cachefs, out>>

\* The steps that run an external tool (run() raises on a non-zero exit).
FailPoints ==
    {"create_image", "refresh_partition_table", "attach", "prepare_boot", "luks_format",
     "luks_setup", "prepare_data", "mount_image", "tree_install", "tree_cleanup",
     "make_generated_root", "ip_resize", "ip_sfdisk", "ip_luks", "ip_dd", "split_root",
     "make_verity", "patch_root_uuid", "kernel_body"}

ToolFails ==
    /\ pc \in FailPoints
    /\ ~exc
    /\ Raise
    /\ UNCHANGED <<args, ctx, loc, raw, disk, kernelParts, loopdev, mappings, mounted,
                   held, log, ip, mnt, cachefs, out>>

\* ------------------------------------------------- one pass, as a state machine
NoStuff == <<>>

NoFlock == [d \in 1..MaxInvocations |-> {}]

InitOnePass ==
    /\ InitPass
    /\ stuff = NoStuff
    /\ tmpdirs = {}
    /\ flock = NoFlock

Next ==
    \/ Start /\ UNCHANGED stuffVars
    \/ ReuseCacheImage /\ UNCHANGED stuffVars
    \/ CreateImage /\ UNCHANGED stuffVars
    \/ RefreshPartitionTable /\ UNCHANGED stuffVars
    \/ AttachImageLoopback /\ UNCHANGED stuffVars
    \/ PrepareBoot /\ UNCHANGED stuffVars
    \/ LuksFormat /\ UNCHANGED stuffVars
    \/ LuksSetupStep /\ UNCHANGED stuffVars
    \/ LuksSetupYield /\ UNCHANGED stuffVars
    \/ PrepareData /\ UNCHANGED stuffVars
    \/ MountStep /\ UNCHANGED stuffVars
    \/ MountYield /\ UNCHANGED stuffVars
    \/ TreeInstall /\ UNCHANGED stuffVars
    \/ TreeCleanup /\ UNCHANGED stuffVars
    \/ ExitMount /\ UNCHANGED stuffVars
    \/ MakeGeneratedRoot /\ UNCHANGED stuffVars
    \/ InsertGeneratedRoot /\ UNCHANGED stuffVars
    \/ RootInserted /\ UNCHANGED stuffVars
    \/ IpRead /\ UNCHANGED stuffVars
    \/ IpResize /\ UNCHANGED stuffVars
    \/ IpSfdisk /\ UNCHANGED stuffVars
    \/ IpRereadBusy /\ UNCHANGED stuffVars
    \/ IpRereadOk /\ UNCHANGED stuffVars
    \/ IpLuks /\ UNCHANGED stuffVars
    \/ IpDd /\ UNCHANGED stuffVars
    \/ IpClose /\ UNCHANGED stuffVars
    \/ IpReturn /\ UNCHANGED stuffVars
    \/ SplitRoot /\ UNCHANGED stuffVars
    \/ MakeVerity /\ UNCHANGED stuffVars
    \/ PatchRootUuid /\ UNCHANGED stuffVars
    \/ InsertVerity /\ UNCHANGED stuffVars
    \/ VerityInserted /\ UNCHANGED stuffVars
    \/ Kernel /\ UNCHANGED stuffVars
    \/ KernelBody /\ UNCHANGED stuffVars
    \/ KernelExit /\ UNCHANGED stuffVars
    \/ ExitScopes /\ UNCHANGED stuffVars
    \/ Return /\ UNCHANGED stuffVars
    \/ ToolFails /\ UNCHANGED stuffVars
    \/ Unwind /\ UNCHANGED stuffVars
    \/ BtrfsForgetStaleDevices /\ UNCHANGED stuffVars

Spec == InitOnePass /\ [][Next]_vars

\* ============================================================== build_stuff
Invocations == 1..MaxInvocations

\* The pass variables build_stuff's model leaves alone.
passFrame == <<ctx, pc, exc, loc, raw, disk, kernelParts, loopdev, mappings, mounted,
               held, log, ip, mnt, out>>

NoCtx == [dev |-> FALSE, for_cache |-> FALSE, cleanup |-> FALSE]

\* build_stuff's frame at its first line.  idx is the stage it stands at,
\* image the BuildOutput of the last pass, source the stage that returned it,
\* moved whether its image file was moved away, root and var_tmp the
\* directories under the workspace, devices whether a pass holds its loop
\* device or mounts, root_size the args.root_size of this process and
\* used_root_size the one the pass at work started with.
StuffStart ==
    [pc |-> "setup_workspace", workspace |-> None, need |-> FALSE, idx |-> 1,
     ctx |-> NoCtx, devices |-> FALSE, cached |-> FALSE, cached_tree |-> FALSE,
     copied |-> FALSE, image |-> BuildOutput_empty, root |-> FALSE,
     var_tmp |-> FALSE, rc |-> None, stages |-> <<>>, linked |-> FALSE,
     inherited |-> {}, applied |-> {}, source |-> "none", moved |-> FALSE,
     root_size |-> None, used_root_size |-> None]

\* The configurations two invocations share.
StuffConfigs ==
    {[a EXCEPT !.skip_final_phase = skip] :
        a \in {b \in BundleConfigs : ValidConfig(b) /\ ~b.verity /\ ~b.split_artifacts
                                      /\ ~b.bootable},
        skip \in BOOLEAN}

InitStuff ==
    /\ args \in StuffConfigs
    /\ cachefs \in [{"pre_dev", "pre_inst"} ->
                      IF args.incremental THEN {NoArtifact, CacheArtifactOf(args)}
                      ELSE {NoArtifact}]
    /\ stuff = [i \in Invocations |-> [StuffStart EXCEPT !.root_size = args.root_size]]
    /\ tmpdirs = {}
    /\ flock = NoFlock
    /\ ctx = NoCtx
    /\ pc = "none"
    /\ exc = FALSE
    /\ loc = InitLoc
    /\ raw = NoRaw
    /\ disk = NoDisk
    /\ kernelParts = 0
    /\ loopdev = FALSE
    /\ mappings = {}
    /\ mounted = <<>>
    /\ held = <<>>
    /\ log = <<>>
    /\ ip = NoIp
    /\ mnt = NoMnt
    /\ out = NotReturned

\* A directory name that is everybody's.
setup_workspace_shared(dirs) == 1

\* setup_workspace: tempfile.TemporaryDirectory makes a directory of a name
\* that is not in use.
setup_workspace(dirs) == CHOOSE d \in 1..(Cardinality(dirs) + 1) : d \notin dirs

SetupWorkspace(i) ==
    /\ stuff[i].pc = "setup_workspace"
    /\ LET d == setup_workspace(tmpdirs)
       IN /\ tmpdirs' = tmpdirs \cup {d}
          /\ stuff' = [stuff EXCEPT ![i] = [@ EXCEPT !.workspace = d, !.pc = "flock"]]
    /\ UNCHANGED <<args, cachefs, flock, passFrame>>

\* fcntl.flock(dir_fd, LOCK_EX) on the workspace: blocks while another open
\* file description holds the lock of that directory.
Flock(i) ==
    /\ stuff[i].pc = "flock"
    /\ flock[stuff[i].workspace] = {}
    /\ flock' = [flock EXCEPT ![stuff[i].workspace] = {i}]
    /\ stuff' = [stuff EXCEPT ![i] = [@ EXCEPT !.pc = "need_cache_images"]]
    /\ UNCHANGED <<args, cachefs, tmpdirs, passFrame>>

need_cache_images(a, fs) ==
    a.incremental /\ (~fs["pre_dev"].present \/ ~fs["pre_inst"].present)

NeedCacheImages(i) ==
    /\ stuff[i].pc = "need_cache_images"
    /\ stuff' = [stuff EXCEPT ![i] = [@ EXCEPT !.need = need_cache_images(args, cachefs),
                                               !.pc = "stage"]]
    /\ UNCHANGED <<args, cachefs, tmpdirs, flock, passFrame>>

\* The build_image calls of build_stuff, in program order.
Stages == <<"populate_dev", "populate_final", "dev", "final">>

StageRuns(a, need, stage) ==
    CASE stage = "populate_dev" -> need /\ a.build_script
      [] stage = "populate_final" -> need
      [] stage = "dev" -> a.build_script
      [] stage = "final" -> ~a.skip_final_phase

StageCtx(stage) ==
    [dev |-> stage \in {"populate_dev", "dev"},
     for_cache |-> stage \in {"populate_dev", "populate_final"},
     cleanup |-> stage = "final"]

\* build_stuff reaches the next build_image call, or the lines after the last.
Stage(i) ==
    /\ stuff[i].pc = "stage"
    /\ LET f == stuff[i]
       IN stuff' = [stuff EXCEPT ![i] =
             IF f.idx > Len(Stages) THEN [f EXCEPT !.pc = "link_output"]
             ELSE IF StageRuns(args, f.need, Stages[f.idx])
             THEN [f EXCEPT !.pc = "build_image", !.ctx = StageCtx(Stages[f.idx]),
                            !.stages = Append(@, Stages[f.idx])]
             ELSE [f EXCEPT !.idx = @ + 1]]
    /\ UNCHANGED <<args, cachefs, tmpdirs, flock, passFrame>>


\* The tree-population steps a cache artifact holds: those of the
\* cache-populate pass whose image or tree save_cache moved to the cache path.
PopulateOps(a, dev) ==
    LET c == [dev |-> dev, for_cache |-> TRUE, cleanup |-> FALSE]
    IN TreeInstallOps(a, c, FALSE, FALSE)

\* build_image up to the attach: lines 6516-6532.  The tree of the pass
\* starts with the steps inherited through a copied cache image.
PassBegin(i) ==
    /\ stuff[i].pc = "build_image"
    /\ LET f == stuff[i]
           r == reuse_cache_image(args, f.ctx, cachefs)
       IN /\ cachefs' = r.fs
          /\ stuff' = [stuff EXCEPT ![i] =
                IF f.ctx.for_cache /\ r.cached
                THEN [f EXCEPT !.cached = TRUE, !.cached_tree = FALSE, !.copied = FALSE,
                               !.inherited = {}, !.applied = {},
                               !.image = BuildOutput_empty, !.source = Stages[f.idx],
                               !.moved = FALSE, !.pc = "after_pass"]
                ELSE [f EXCEPT !.cached = r.cached, !.cached_tree = FALSE,
                               !.copied = r.cached,
                               !.used_root_size = f.root_size,
                               !.inherited = IF r.cached THEN PopulateOps(args, f.ctx.dev)
                                             ELSE {},
                               !.applied = {},
                               !.devices = r.raw.present \/ is_disk(args.output_format),
                               !.pc = "pass_tree"]]
    /\ UNCHANGED <<args, tmpdirs, flock, passFrame>>

\* build_image inside the mount: lines 6557-6598.
PassTree(i) ==
    /\ stuff[i].pc = "pass_tree"
    /\ LET f == stuff[i]
           r == reuse_cache_tree(args, f.ctx, f.cached, cachefs)
       IN /\ cachefs' = r.fs
          /\ stuff' = [stuff EXCEPT ![i] =
                [f EXCEPT !.cached_tree = r.cached_tree, !.copied = f.copied \/ r.copied,
                          !.inherited = IF r.copied THEN PopulateOps(args, f.ctx.dev)
                                        ELSE f.inherited,
                          !.applied = TreeInstallOps(args, f.ctx, f.cached, r.cached_tree),
                          !.devices = TRUE, !.root = TRUE, !.var_tmp = TRUE,
                          !.pc = "pass_exit"]]
    /\ UNCHANGED <<args, tmpdirs, flock, passFrame>>

\* insert_generated_root: args.root_size when it returns, the generated root
\* having come out at `blob` bytes.
insert_generated_root(a, c, root_size, blob) ==
    IF is_generated_root(a) /\ is_disk(a.output_format) /\ ~c.for_cache
    THEN roundup(blob, 512)
    ELSE root_size

\* build_image leaves its scopes and returns: lines 6600-6635.
PassExit(i) ==
    /\ stuff[i].pc = "pass_exit"
    /\ LET f == stuff[i]
       IN \E blob \in BlobSizes :
          stuff' = [stuff EXCEPT ![i] =
             [f EXCEPT !.devices = FALSE,
                       !.root_size = insert_generated_root(args, f.ctx, f.root_size, blob),
                       !.image = BuildOutput(is_disk(args.output_format)
                                                \/ (is_generated_root(args) /\ ~f.ctx.for_cache),
                                             MakesArchive(args, f.ctx), NoHash,
                                             ~f.ctx.dev /\ ~f.ctx.for_cache,
                                             FALSE, FALSE, FALSE),
                       !.source = Stages[f.idx], !.moved = FALSE,
                       !.pc = "after_pass"]]
    /\ UNCHANGED <<args, cachefs, tmpdirs, flock, passFrame>>

\* A tool of the pass fails: the scopes are left and the error leaves build_stuff.
PassFails(i) ==
    /\ stuff[i].pc \in {"pass_tree", "pass_exit"}
    /\ stuff' = [stuff EXCEPT ![i] = [@ EXCEPT !.devices = FALSE, !.pc = "exit"]]
    /\ UNCHANGED <<args, cachefs, tmpdirs, flock, passFrame>>

\* The statement of build_stuff that follows each build_image call.
AfterPass(i) ==
    /\ stuff[i].pc = "after_pass"
    /\ LET f == stuff[i]
       IN stuff' = [stuff EXCEPT ![i] =
             CASE f.ctx.for_cache -> [f EXCEPT !.pc = "save_cache"]
               [] f.ctx.dev /\ ~f.ctx.for_cache -> [f EXCEPT !.pc = "run_build_script"]
               [] OTHER -> [f EXCEPT !.idx = @ + 1, !.pc = "stage"]]
    /\ UNCHANGED <<args, cachefs, tmpdirs, flock, passFrame>>

\* save_cache: shutil.move of the image for a writable disk format;
\* unlink_try_hard of the cache path for the others, the move being the next step.
SaveCache(i) ==
    /\ stuff[i].pc = "save_cache"
    /\ LET f == stuff[i]
           name == CacheName(f.ctx.dev)
       IN IF is_disk_rw(args.output_format)
          THEN /\ cachefs' = IF f.image.raw THEN [cachefs EXCEPT ![name] = CachedImage(args)]
                             ELSE cachefs
               /\ stuff' = [stuff EXCEPT ![i] = [f EXCEPT !.moved = f.image.raw,
                                                          !.pc = "remove_artifacts"]]
          ELSE /\ cachefs' = [cachefs EXCEPT ![name] = NoArtifact]
               /\ stuff' = [stuff EXCEPT ![i] = [f EXCEPT !.pc = "save_cache_move"]]
    /\ UNCHANGED <<args, tmpdirs, flock, passFrame>>

\* shutil.move(root, cache_path)
SaveCacheMove(i) ==
    /\ stuff[i].pc = "save_cache_move"
    /\ cachefs' = [cachefs EXCEPT ![CacheName(stuff[i].ctx.dev)] = CachedTree]
    /\ stuff' = [stuff EXCEPT ![i] = [@ EXCEPT !.root = FALSE, !.pc = "remove_artifacts"]]
    /\ UNCHANGED <<args, tmpdirs, flock, passFrame>>

\* remove_artifacts(args, root, raw, archive, do_run_build_script): every call
\* site leaves for_cache at its default False.
remove_artifacts(f, do_run_build_script, for_cache) ==
    IF for_cache \/ do_run_build_script
    THEN [f EXCEPT !.root = FALSE, !.var_tmp = FALSE]
    ELSE f

RemoveArtifacts(i) ==
    /\ stuff[i].pc = "remove_artifacts"
    /\ stuff' = [stuff EXCEPT ![i] =
          [remove_artifacts(stuff[i], stuff[i].ctx.dev, FALSE)
              EXCEPT !.idx = @ + 1, !.pc = "stage"]]
    /\ UNCHANGED <<args, cachefs, tmpdirs, flock, passFrame>>

\* A build script that is allowed to fail.
run_build_script_lenient(returncode) == "remove_artifacts"

\* run_build_script: die() on a non-zero exit code of the script.
run_build_script(returncode) == IF returncode # 0 THEN "exit" ELSE "remove_artifacts"

RunBuildScript(i) ==
    /\ stuff[i].pc = "run_build_script"
    /\ \E returncode \in {0, 1} :
          stuff' = [stuff EXCEPT ![i] =
             [@ EXCEPT !.rc = returncode, !.stages = Append(@, "script"),
                       !.pc = run_build_script(returncode)]]
    /\ UNCHANGED <<args, cachefs, tmpdirs, flock, passFrame>>

\* link_output(args, root, raw or image.archive): whether it links the
\* output.  A tree format renames the root directory; the others link the
\* file of the artifact, which must be given and still be where it was made.
link_output(a, f) ==
    IF a.output_format \in {"directory", "subvolume"}
    THEN ~f.image.raw /\ ~f.image.archive /\ f.root
    ELSE (f.image.raw \/ f.image.archive) /\ ~(f.image.raw /\ f.moved)

\* Lines 6815-6842: the artifacts of `image` are linked to the output paths,
\* or the error of link_output leaves build_stuff.
LinkOutput(i) ==
    /\ stuff[i].pc = "link_output"
    /\ stuff' = [stuff EXCEPT ![i] =
          [@ EXCEPT !.linked = link_output(args, stuff[i]), !.pc = "exit"]]
    /\ UNCHANGED <<args, cachefs, tmpdirs, flock, passFrame>>

\* The with block of build_stuff is left, by return or by an error: dir_fd is
\* closed, which drops the flock.
Exit(i) ==
    /\ stuff[i].pc = "exit"
    /\ flock' = [flock EXCEPT ![stuff[i].workspace] = @ \ {i}]
    /\ stuff' = [stuff EXCEPT ![i] = [@ EXCEPT !.pc = "done"]]
    /\ UNCHANGED <<args, cachefs, tmpdirs, passFrame>>

NextStuff ==
    \/ \E i \in Invocations : SetupWorkspace(i)
    \/ \E i \in Invocations : Flock(i)
    \/ \E i \in Invocations : NeedCacheImages(i)
    \/ \E i \in Invocations : Stage(i)
    \/ \E i \in Invocations : PassBegin(i)
    \/ \E i \in Invocations : PassTree(i)
    \/ \E i \in Invocations : PassExit(i)
    \/ \E i \in Invocations : PassFails(i)
    \/ \E i \in Invocations : AfterPass(i)
    \/ \E i \in Invocations : SaveCache(i)
    \/ \E i \in Invocations : SaveCacheMove(i)
    \/ \E i \in Invocations : RemoveArtifacts(i)
    \/ \E i \in Invocations : RunBuildScript(i)
    \/ \E i \in Invocations : LinkOutput(i)
    \/ \E i \in Invocations : Exit(i)

SpecStuff == InitStuff /\ [][NextStuff]_vars

\* ==================================================== properties of one pass
\* The table insert_partition finds on the device when it is called.
TableBefore ==
    IF args.ran_sfdisk THEN PT_read(SfdiskDump(disk)) ELSE PT_empty(args.gpt_first_lba)

\* C1: append-only insertion.  The script insert_partition applies replays
\* every line dumped from the device unchanged and in order, with the new
\* line last, and applying it leaves the start (and size) of every partition
\* that was there before the call as it was.
AppendOnlyInsertion ==
    [][pc = "ip_sfdisk" =>
         LET before == SfdiskDump(disk).lines
             applied == InsertTable(ip).lines
         IN /\ Len(applied) = Len(before) + 1
            /\ SubSeq(applied, 1, Len(before)) = before
            /\ applied[Len(applied)] = NewLine(ip)
            /\ pc' = "ip_reread" =>
                 /\ Len(disk'.parts) = Len(disk.parts) + 1
                 /\ \A i \in 1..Len(disk.parts) :
                       /\ disk'.parts[i].start = disk.parts[i].start
                       /\ disk'.parts[i].size = disk.parts[i].size]_vars

\* C1 witness: a partition was inserted behind at least two earlier ones.
AppendOnlyInsertionSeen ==
    /\ pc = "ip_reread"
    /\ Len(ip.old_table.partitions) >= 2
    /\ Len(disk.parts) = Len(ip.old_table.partitions) + 1

\* C2 as stated: after insert_partition has resized the image, its size is
\* roundup(first_usable_offset() + sector-rounded blob + footer_size(), 4096)
\* on the table as it was before the call.
GeometryAsStated ==
    [][pc = "ip_resize" /\ pc' = "ip_sfdisk" =>
         raw'.size = roundup(first_usable_offset(TableBefore) + roundup(ip.blob, 512)
                             + footer_size(TableBefore), 4096)]_vars

\* C2 amended: the size also holds the 16 MiB reserved for the encryption
\* header when the encryption scope is "all":
\* roundup(first_usable_offset() + sector-rounded blob + reservation
\*         + footer_size(), 4096).
GeometryWithReservation ==
    [][pc = "ip_resize" /\ pc' = "ip_sfdisk" =>
         raw'.size = roundup(first_usable_offset(TableBefore) + roundup(ip.blob, 512)
                             + (IF args.encrypt = "all" THEN 16 * 1024 * 1024 ELSE 0)
                             + footer_size(TableBefore), 4096)]_vars

\* C2 witness: an insertion with the encryption scope "all" has resized the image.
GeometryWithReservationSeen ==
    /\ pc = "ip_sfdisk"
    /\ args.encrypt = "all"
    /\ raw.size = ip.new_size

\* C3: root/verity pairing.  When a final pass with verity returned with root
\* hash H, the verity partition's UUID is UUID(H[-32:]) and the root
\* partition's UUID is UUID(H[:32]), the verity partition having been
\* inserted after the root UUID was patched.
RootVerityPairing ==
    (pc \in {"returned", "done"} /\ ~ctx.dev /\ ~ctx.for_cache /\ args.verity) =>
        /\ out.root_hash # NoHash
        /\ args.partno["verity"] <= Len(disk.parts)
        /\ disk.parts[args.partno["verity"]].uuid
              = UUID(SubSeq(out.root_hash, 33, 64))
        /\ disk.parts[args.partno["root"]].uuid
              = UUID(SubSeq(out.root_hash, 1, 32))

\* C3 witness: a final pass with verity returned, root and verity inserted.
RootVerityPairingSeen ==
    /\ pc = "returned"
    /\ ~ctx.dev /\ ~ctx.for_cache /\ args.verity
    /\ is_generated_root(args)
    /\ out.root_hash # NoHash

\* C4: teardown on failure.  When the error leaves build_image, every scoped
\* resource the pass had acquired has been released: no mapping is open any
\* more and the loop device is detached.
TeardownOnFailure ==
    pc = "raised" => (mappings = {} /\ ~loopdev)

\* The events that enter a scope, and the event that leaves it.
ScopeOfEvent(e) ==
    CASE e.ev \in {"attach", "detach"} -> Scope("loop", "loop")
      [] e.ev \in {"open", "close"} -> Scope("luks", e.arg)
      [] e.ev \in {"mount", "umount"} -> Scope("mount", "tree")

\* Replays the first n events of a log over a stack of scopes: every release
\* event leaves the scope entered last, and a rescan finds no scope entered.
RECURSIVE ReleasesNested(_, _)
ReleasesNested(l, n) ==
    IF n = 0 THEN [ok |-> TRUE, stack |-> <<>>]
    ELSE LET prev == ReleasesNested(l, n - 1)
             e == l[n]
         IN CASE e.ev \in {"attach", "open", "mount"} ->
                    [prev EXCEPT !.stack = Append(@, ScopeOfEvent(e))]
              [] e.ev \in {"detach", "close", "umount"} ->
                    IF prev.stack # <<>> /\ prev.stack[Len(prev.stack)] = ScopeOfEvent(e)
                    THEN [prev EXCEPT !.stack = SubSeq(@, 1, Len(@) - 1)]
                    ELSE [prev EXCEPT !.ok = FALSE]
              [] e.ev = "rescan" -> [prev EXCEPT !.ok = @ /\ prev.stack = <<>>]
              [] OTHER -> prev

\* The positions of the scopes of a kind in the stack of held scopes.
HeldOf(kind) == {k \in 1..Len(held) : held[k].kind = kind}

CacheReuseCopies == [][~ctx.for_cache => cachefs' = cachefs]_vars

\* C7 witness: a pass based on the cached image, or on the cached tree, has
\* returned and the artifact is still at its cache path.
CacheReuseCopiesSeen ==
    /\ pc = "returned"
    /\ loc.cached \/ loc.copied_cache
    /\ cachefs[CacheName(ctx.dev)].present

\* The operations of lines 6591-6598, which only clean the tree up.
CleanupOnly ==
    {"clean_package_metadata", "remove_files", "reset_machine_id",
     "reset_random_seed", "finalize_script", "fstrim", "make_read_only"}

\* The pass is the final pass of build_stuff.
FinalPass == ~ctx.dev /\ ~ctx.for_cache

\* C11 as stated: in a final pass whose tree came from a cache artifact, none
\* of the cleanup-only operations has run when the mount scope is left.
CleanupSkippedWhenCached ==
    (pc = "exit_mount" /\ FinalPass /\ loc.cached_tree)
        => loc.tree \cap CleanupOnly = {}

\* C11 amended: the cleanup-only operations are skipped in the pass that
\* populates the cache (all of them but the random-seed removal, which has
\* no such test), not in the pass that consumes it: a final pass runs
\* package-metadata removal, file-glob removal, machine-id reset, random-seed
\* removal and the finalize script whether or not its tree came from a cache.
CleanupSkippedWhenPopulating ==
    pc = "exit_mount" =>
        /\ ctx.for_cache => loc.tree \cap CleanupOnly \subseteq {"reset_random_seed"}
        /\ FinalPass =>
              {"clean_package_metadata", "remove_files", "reset_machine_id",
               "reset_random_seed", "finalize_script"} \subseteq loc.tree

\* C11 witness: a cache-populate pass has installed the distribution and
\* leaves the mount scope with no cleanup but the random-seed removal done.
CleanupSkippedWhenPopulatingSeen ==
    /\ pc = "exit_mount"
    /\ ctx.for_cache
    /\ "distribution" \in loc.tree
    /\ loc.tree \cap CleanupOnly = {"reset_random_seed"}

\* C12: for every build_image call that returns, the root hash of the
\* returned BuildOutput is present if and only if verity is requested and the
\* pass is neither a cache-populate pass nor a development pass.
RootHashPresence ==
    pc = "returned" =>
        (out.root_hash # NoHash <=> (args.verity /\ ~ctx.for_cache /\ ~ctx.dev))

\* C12 witness: a final pass with verity returned a bundle with a root hash
\* of 64 hex digits.
RootHashPresenceSeen ==
    /\ pc = "returned"
    /\ args.verity /\ FinalPass
    /\ Len(out.root_hash) = 64

\* C13 as stated: the BuildOutput of a final pass has exactly one of its raw
\* and archive fields present, for every output format.
ArchiveXorDisk ==
    (pc = "returned" /\ FinalPass) => (out.raw # out.archive)

\* C13 amended: the BuildOutput of a final pass never has both raw and
\* archive present, and has exactly one of them present for every output
\* format but directory and subvolume, where the result is the tree itself
\* and both fields are absent.
ArchiveXorDiskButTree ==
    (pc = "returned" /\ FinalPass) =>
        /\ ~(out.raw /\ out.archive)
        /\ (out.raw \/ out.archive) <=> args.output_format \notin {"directory", "subvolume"}

\* C13 witness: a final pass of an archive format returned its archive and
\* no image.
ArchiveXorDiskButTreeSeen ==
    /\ pc = "returned"
    /\ FinalPass
    /\ out.archive /\ ~out.raw

\* C14: a final pass of a configuration with an ESP, a root partition and
\* verity, split artifacts not requested, returns a bundle with the disk
\* image and the root hash present and split root, split verity and split
\* kernel absent; a split field of any returned bundle is present only if
\* split artifacts were requested.
BundleShape ==
    pc = "returned" =>
        /\ (FinalPass /\ args.partno["esp"] # None /\ args.verity /\ ~args.split_artifacts)
              => /\ out.raw
                 /\ out.root_hash # NoHash
                 /\ ~out.split_root /\ ~out.split_verity /\ ~out.split_kernel
        /\ (out.split_root \/ out.split_verity \/ out.split_kernel) => args.split_artifacts

\* C14 witness: such a final pass returned, with root and verity partitions
\* behind the ESP.
BundleShapeSeen ==
    /\ pc = "returned"
    /\ FinalPass /\ args.partno["esp"] # None /\ args.verity /\ ~args.split_artifacts
    /\ out.raw
    /\ Len(disk.parts) >= 3

\* C16 as stated: for sector size 512 and the 128-entry partition array,
\* footer_size() of the table insert_partition works on is 17408 bytes.
FooterFixtureAsStated ==
    (pc = "ip_resize" /\ ip.old_table.sector_size = 512)
        => footer_size(ip.old_table) = 17408

\* C16 amended: for sector size 512 and the 128-entry partition array,
\* footer_size() is 16896 bytes, 33 sectors: one for the GPT header and 32
\* for the entry array; 17408 bytes is the footer plus the one sector of the
\* protective MBR, the extent first_usable_offset() rounds up to the grain
\* for an empty table without a first-LBA override.
FooterFixture ==
    (pc = "ip_resize" /\ ip.old_table.sector_size = 512) =>
        /\ footer_size(ip.old_table) = 16896
        /\ ip.old_table.sector_size + footer_size(ip.old_table) = 17408
        /\ (ip.old_table.partitions = <<>> /\ ip.old_table.first_lba = None)
              => ip.partition_offset = roundup(17408, ip.old_table.grain)

\* C16 witness: insert_partition has computed its sizes on an empty table of
\* 512-byte sectors without a first-LBA override.
FooterFixtureSeen ==
    /\ pc = "ip_resize"
    /\ ip.old_table.sector_size = 512
    /\ ip.old_table.partitions = <<>> /\ ip.old_table.first_lba = None
    /\ ip.partition_offset = 20480

\* The positions of the partitions of a type in the table on the image.
PartsOfType(type) == {i \in 1..Len(disk.parts) : disk.parts[i].type = type}

\* Every event of the set A in the log comes before every event of the set B.
Precedes(A, B) ==
    \A i, j \in 1..Len(log) : (log[i] \in A /\ log[j] \in B) => i < j

\* The event is in the log.
Logged(e) == \E i \in 1..Len(log) : log[i] = e

\* C17: root before verity.  Whenever a verity partition is in the table, a
\* root partition is in it at a lower position; while insert_partition works
\* on the verity partition a root partition is in the table; and with a
\* generated root, the root blob was written before the table with the
\* verity partition is applied.
RootBeforeVerity ==
    /\ \A i \in PartsOfType("verity") : \E j \in PartsOfType("root") : j < i
    /\ ip.role = "verity" => PartsOfType("root") # {}
    /\ Logged(Ev("sfdisk", "verity")) =>
          /\ is_generated_root(args) => Logged(Ev("dd", "root"))
          /\ Precedes({Ev("dd", "root")}, {Ev("sfdisk", "verity")})

\* C17 witness: the verity partition has been put into the table behind a
\* generated root.
RootBeforeVeritySeen ==
    /\ pc = "ip_reread"
    /\ ip.role = "verity"
    /\ is_generated_root(args)
    /\ PartsOfType("verity") # {}

\* The steps of insert_partition, as the events they log.
IpSteps == <<"resize", "sfdisk", "rereadpt", "dd">>

\* The events insert_partition has logged for the partition of a role.
IpTrace(role) ==
    SelectSeq(log, LAMBDA e : e.arg = role /\ e.ev \in {"resize", "sfdisk", "rereadpt", "dd"})

\* insert_partition has read its old table and not yet returned, or an error
\* left it.
InInsertion ==
    /\ ip.role # "none" /\ ip.blob_size > 0
    /\ pc \in {"ip_resize", "ip_sfdisk", "ip_reread", "ip_luks", "ip_dd", "ip_close",
               "ip_done", "unwind", "raised", "died"}

\* C18: the steps of insert_partition.  The old table is the one read from
\* the device when a table was written before and an empty one otherwise;
\* the events of an insertion are a prefix of resize, sfdisk, re-read, write,
\* so that a step that fails is the last one and the blob is written only
\* after a re-read that succeeded; the re-read is tried at most 10 times;
\* past the re-read the kernel knows every partition of the table; and an
\* insertion that started with no table written leaves ran_sfdisk false until
\* it returns.
InsertionSteps ==
    /\ \A role \in {"root", "verity"} :
          LET t == IpTrace(role)
          IN /\ Len(t) <= Len(IpSteps)
             /\ \A k \in 1..Len(t) : t[k].ev = IpSteps[k]
    /\ ip.attempts <= REREAD_ATTEMPTS
    /\ pc = "ip_resize" => ip.old_table = TableBefore
    /\ pc \in {"ip_luks", "ip_dd", "ip_close", "ip_done"} => kernelParts = Len(disk.parts)
    /\ (InInsertion /\ ip.old_table.last_partition_sector = None) => ~args.ran_sfdisk

\* C18 witness: the re-read failed ten times in an insertion that started
\* with no table written: the error left build_image with the table applied,
\* the blob not written and ran_sfdisk false.
InsertionStepsSeen ==
    /\ pc = "raised"
    /\ ip.attempts = REREAD_ATTEMPTS
    /\ ip.old_table.last_partition_sector = None
    /\ Len(IpTrace(ip.role)) = 2
    /\ ~args.ran_sfdisk

\* The events of the three unified-kernel steps.
KernelEvents == {Ev(KernelSteps[k], "tree") : k \in 1..Len(KernelSteps)}

\* C19 as stated: the generated root is inserted, then the verity tree is
\* generated and inserted, then the root UUID is patched, then the unified
\* kernel steps run.
FinalizationOrderAsStated ==
    /\ Precedes({Ev("dd", "root")}, {Ev("veritysetup", "root")})
    /\ Precedes({Ev("veritysetup", "root")}, {Ev("sfdisk", "verity"), Ev("dd", "verity")})
    /\ Precedes({Ev("sfdisk", "verity"), Ev("dd", "verity")}, {Ev("part_uuid", "root")})
    /\ Precedes({Ev("part_uuid", "root")}, KernelEvents)

\* C19 amended: the generated root is inserted, then the verity tree is
\* generated, then the root UUID is patched from the root hash, then the
\* verity tree is inserted as a partition, and only after that the unified
\* kernel steps run; a final pass with verity reaches the kernel steps with
\* the root UUID patched and the verity partition written.
FinalizationOrder ==
    /\ Precedes({Ev("dd", "root")}, {Ev("veritysetup", "root")})
    /\ Precedes({Ev("veritysetup", "root")}, {Ev("part_uuid", "root")})
    /\ Precedes({Ev("part_uuid", "root")}, {Ev("sfdisk", "verity"), Ev("dd", "verity")})
    /\ Precedes({Ev("sfdisk", "verity"), Ev("dd", "verity")}, KernelEvents)
    /\ (pc = "kernel" /\ FinalPass /\ args.verity) =>
          Logged(Ev("part_uuid", "root")) /\ Logged(Ev("dd", "verity"))

\* C19 witness: a pass has inserted a generated root, patched the root UUID,
\* inserted the verity partition and built the unified kernel image.
FinalizationOrderSeen ==
    /\ Logged(Ev("dd", "root"))
    /\ Logged(Ev("part_uuid", "root"))
    /\ Logged(Ev("dd", "verity"))
    /\ Logged(Ev("install_unified_kernel", "tree"))

\* The mounts of the root volume among the mounts made.
RootVolumeMounts == {k \in 1..Len(mounted) : mounted[k].dev = "root"}

\* C20: once the verity hashes are generated, no mount of the root volume
\* is writable; every mount_image call of the unified-kernel steps mounts
\* the root volume read-only, starts with nothing mounted and no mount scope
\* held, and no writable mount scope is entered after the hashes were made.
ReadOnlyAfterVerity ==
    /\ Logged(Ev("veritysetup", "root")) => \A k \in RootVolumeMounts : mounted[k].ro
    /\ (pc \in {"kernel_body", "kernel_exit"} \/ (pc = "mount_image" /\ mnt.ro)) =>
          /\ \A k \in RootVolumeMounts : mounted[k].ro
          /\ Logged(Ev("umount", "tree"))
    /\ (pc = "mount_image" /\ mnt.ro) =>
          /\ HeldOf("mount") = {}
          /\ mnt.i = 1 => mounted = <<>>
    /\ Precedes({Ev("mount", "rw")}, {Ev("veritysetup", "root")})

\* C20 witness: a unified-kernel step runs on the root volume mounted
\* read-only after the verity hashes were generated.
ReadOnlyAfterVeritySeen ==
    /\ pc = "kernel_body"
    /\ Logged(Ev("veritysetup", "root"))
    /\ RootVolumeMounts # {}
    /\ \A k \in RootVolumeMounts : mounted[k].ro

\* The last byte a partition of the table occupies, from the lines themselves.
RECURSIVE LastOccupiedByte(_, _)
LastOccupiedByte(t, i) ==
    IF i = 0 THEN 0
    ELSE Max2(LastOccupiedByte(t, i - 1),
              (t.partitions[i].start + t.partitions[i].size) * t.sector_size)

\* insert_partition has computed partition_offset from its old table.
OffsetComputed ==
    /\ ip.role # "none"
    /\ pc \in {"ip_resize", "ip_sfdisk", "ip_reread", "ip_luks", "ip_dd", "ip_close",
               "ip_done"}

\* C21: first_usable_offset.  The offset insert_partition computes from its
\* old table is the last occupied byte rounded up to the grain when the table
\* has partitions; otherwise first_lba times the sector size, unrounded, when
\* the table has a first_lba; otherwise one sector plus the footer, rounded up
\* to the grain.  It is a multiple of 4096 except in the first_lba case.
FirstUsableOffset ==
    OffsetComputed =>
        LET t == ip.old_table
            n == Len(t.partitions)
            off == ip.partition_offset
        IN /\ n > 0 => off = roundup(LastOccupiedByte(t, n), 4096)
           /\ (n = 0 /\ t.first_lba # None) => off = t.first_lba * 512
           /\ (n = 0 /\ t.first_lba = None) => off = roundup(512 + footer_size(t), 4096)
           /\ (n > 0 \/ t.first_lba = None) => off % 4096 = 0

\* C21 witness: an insertion into an image with no table, the configured
\* first LBA taken exactly: the offset is not a multiple of the grain.
FirstUsableOffsetSeen ==
    /\ OffsetComputed
    /\ Len(ip.old_table.partitions) = 0
    /\ ip.old_table.first_lba = args.gpt_first_lba
    /\ args.gpt_first_lba # None
    /\ ip.partition_offset = args.gpt_first_lba * 512
    /\ ip.partition_offset % 4096 # 0

\* The roles args holds a partition number for.
NumberedRoles == {r \in Roles : args.partno[r] # None}

\* Whether the configuration asks for the role's partition.
RoleConfigured(role) ==
    CASE role = "esp" -> "uefi" \in args.boot_protocols /\ args.bootable
      [] role = "bios" -> "bios" \in args.boot_protocols /\ args.bootable
      [] role = "xbootldr" -> args.xbootldr_size # None
      [] role = "swap" -> args.swap_size # None
      [] role = "home" -> args.home_size # None
      [] role = "srv" -> args.srv_size # None
      [] role = "var" -> args.var_size # None
      [] role = "tmp" -> args.tmp_size # None
      [] role = "root" -> TRUE
      [] role = "verity" -> args.verity

\* C22: partition numbering.  Once the image of a pass is attached, the
\* partition numbers in args are 1..n without gaps or repeats, grow along the
\* order ESP, BIOS boot, XBOOTLDR, swap, home, srv, var, tmp, root, verity;
\* a role that is not configured has none, root has one, verity has root + 1
\* exactly when verity is requested, and determine_partition_table gives the
\* same numbers when called again.
PartitionNumbering ==
    loopdev =>
        /\ {args.partno[r] : r \in NumberedRoles} = 1..Cardinality(NumberedRoles)
        /\ \A r1, r2 \in NumberedRoles :
              RoleIndex(r1) < RoleIndex(r2) => args.partno[r1] < args.partno[r2]
        /\ \A r \in Roles : ~RoleConfigured(r) => args.partno[r] = None
        /\ args.partno["root"] # None
        /\ args.verity <=> args.partno["verity"] # None
        /\ args.verity => args.partno["verity"] = args.partno["root"] + 1
        /\ determine_partition_table(args).args.partno = args.partno

\* C22 witness: a generated root with verity behind an ESP and a data volume:
\* root and verity hold the numbers 3 and 4 while the table has two partitions.
PartitionNumberingSeen ==
    /\ loopdev
    /\ pc = "prepare_boot"
    /\ is_generated_root(args)
    /\ args.partno["esp"] = 1
    /\ args.partno["root"] = 3
    /\ args.partno["verity"] = 4
    /\ Len(disk.parts) = 2

\* The events a step appends to the log.
NewEvents == {log'[k] : k \in (Len(log) + 1)..Len(log')}

\* The mount scope of mount_image is entered.
MountScopeHeld == \E k \in 1..Len(held) : held[k].kind = "mount"

\* C23: mapping discipline.  A volume's mapping is opened only while the
\* volume has no open mapping, the root mapping of an insertion included;
\* losetup --detach runs only when every mapping is closed; and no mapping is
\* open when build_image is left, by return or by error.
MappingDiscipline ==
    [][/\ \A e \in NewEvents : e.ev = "open" => e.arg \notin mappings
       /\ \A e \in NewEvents : e.ev = "detach" => mappings = {}
       /\ pc' \in {"returned", "raised"} => mappings' = {}]_vars

\* C24: mount_image unmounts on partial failure.  When an error propagates
\* out of mount_image to the enclosing scopes, or has left build_image, and
\* the mount scope is not held, nothing is mounted under the root.
UnmountOnPartialFailure ==
    (pc \in {"unwind", "raised"} /\ ~MountScopeHeld) => mounted = <<>>

\* The handle the claim gives a volume: absent without a partition number,
\* a mapping for a volume in the encryption scope outside a development
\* pass, the raw partition path otherwise.
HandleAsStated(v) ==
    LET scoped == IF v = "root"
                  THEN args.encrypt = "all" /\ ~is_generated_root(args)
                  ELSE args.encrypt \in {"all", "data"}
    IN IF args.partno[v] = None THEN "None"
       ELSE IF scoped /\ ~ctx.dev THEN "mapped"
       ELSE "raw"

\* C25: the handles of luks_setup_all.  What luks_setup_all yields for root,
\* home, srv, var and tmp is absent exactly for a volume without a partition
\* number, a mapping exactly for a volume in the encryption scope when the
\* pass is not a development pass, and the raw partition path otherwise.
LuksHandles ==
    [][(pc = "luks_setup" /\ pc' = "prepare_data") =>
          \A v \in {"root", "home", "srv", "var", "tmp"} :
              loc'.encrypted[v] = HandleAsStated(v)]_vars

\* C25 witness: encryption scope "data" in a final pass: the data volume is a
\* mapping, the root the raw partition path, the other volumes absent.
LuksHandlesSeen ==
    /\ pc = "prepare_data"
    /\ args.encrypt = "data"
    /\ ~ctx.dev
    /\ loc.encrypted["root"] = "raw"
    /\ \E v \in DataVolumes : loc.encrypted[v] = "mapped"
    /\ \E v \in DataVolumes : loc.encrypted[v] = "None"

\* C26: cached volumes are preserved.  In a pass that works on a disk image
\* restored from the cache no volume is formatted: the log holds no mkfs
\* (file system or swap) and no luksFormat event; the volumes in the
\* encryption scope are opened all the same.
CachedVolumesPreserved ==
    loc.cached =>
        /\ \A k \in 1..Len(log) : log[k].ev \notin {"mkfs", "luksFormat"}
        /\ pc = "prepare_data" =>
              \A v \in {"root", "home", "srv", "var", "tmp"} :
                  HandleAsStated(v) = "mapped" => v \in mappings

\* C26 witness: a cached image with an encrypted root and data volume is
\* mounted: both mappings are open and their file systems were refreshed.
CachedVolumesPreservedSeen ==
    /\ loc.cached
    /\ pc = "tree_install"
    /\ "root" \in mappings
    /\ \E v \in DataVolumes : v \in mappings /\ Logged(Ev("refresh", v))
    /\ Logged(Ev("refresh", "root"))

\* The architecture error has been reported.
ArchitectureReported == Logged(Ev("die", "architecture"))

\* C27: the architecture is checked at table construction.  When the error
\* for an unsupported architecture is reported, it is the first thing the
\* pass did: no external tool has run on the image and nothing was installed
\* into the tree.
ArchitectureCheckedFirst ==
    ArchitectureReported =>
        /\ log[1] = Ev("die", "architecture")
        /\ loc.tree = {}
        /\ loc.generated_root = None

\* The roles whose partition determine_partition_table describes itself:
\* all but a generated root and the verity partition, which are inserted.
PreCreatedRoles ==
    {r \in Roles \ {"verity"} :
        args.partno[r] # None /\ (r = "root" => ~is_generated_root(args))}

\* C28: slot/table consistency.  Once the image is attached, every role with
\* a partition number that is not inserted later is the partition of that
\* number in the table on the image; insert_partition, called with number p,
\* reads a table of p - 1 partitions, and the partition it writes the blob to
\* is partition p of the table, of the role inserted.
SlotTableConsistency ==
    /\ (loopdev /\ pc = "prepare_boot") =>
          \A r \in PreCreatedRoles :
              /\ args.partno[r] <= Len(disk.parts)
              /\ disk.parts[args.partno[r]].type = r
    /\ OffsetComputed => Len(ip.old_table.partitions) = ip.partno - 1
    /\ (ip.role # "none" /\ pc \in {"ip_luks", "ip_dd", "ip_close", "ip_done"}) =>
          /\ Len(disk.parts) = ip.partno
          /\ disk.parts[ip.partno].type = ip.role

\* ================================================== properties of build_stuff
\* The invocation is inside the section it runs holding its flock.
InLockedSection(i) == stuff[i].pc \notin {"setup_workspace", "flock", "done"}

\* C6 as stated: no two invocations are inside their locked section at the
\* same time.
MutualExclusionOfBuilds ==
    \A i, j \in Invocations : i # j => ~(InLockedSection(i) /\ InLockedSection(j))

\* C6 amended: an invocation inside its locked section is the only holder of
\* the exclusive lock on its own workspace directory, a temporary directory
\* no other invocation has; the lock does not order invocations.
OwnWorkspaceLocked ==
    \A i \in Invocations :
        InLockedSection(i) =>
            /\ stuff[i].workspace \in tmpdirs
            /\ flock[stuff[i].workspace] = {i}
            /\ \A j \in Invocations \ {i} : stuff[j].workspace # stuff[i].workspace

\* C6 witness: two invocations run a pass at the same time, each holding the
\* lock of its workspace.
OwnWorkspaceLockedSeen ==
    \E i, j \in Invocations :
        /\ i # j
        /\ stuff[i].pc = "pass_tree" /\ stuff[j].pc = "pass_tree"
        /\ flock[stuff[i].workspace] = {i} /\ flock[stuff[j].workspace] = {j}

\* C8: the restored-from-cache flags a pass works with (cached, cached_tree)
\* are true only if the pass found a cache artifact and copied it.
RestoredFlagDerived ==
    \A i \in Invocations :
        (stuff[i].pc = "pass_exit" /\ (stuff[i].cached \/ stuff[i].cached_tree))
            => stuff[i].copied

\* The rank of a stage event in the order build_stuff is to run them in.
StageRank(e) ==
    CASE e = "populate_dev" -> 1
      [] e = "populate_final" -> 2
      [] e = "dev" -> 3
      [] e = "script" -> 4
      [] e = "final" -> 5

\* C9: stage ordering.  The stages of an invocation start in the order
\* cache-populate development pass, cache-populate final pass, development
\* pass, build script, final pass; the build script starts only when the
\* development pass has returned and holds no device; after a non-zero exit
\* of the build script no final pass starts.
StageOrdering ==
    \A i \in Invocations :
        LET st == stuff[i].stages
        IN /\ \A a, b \in 1..Len(st) : a < b => StageRank(st[a]) < StageRank(st[b])
           /\ stuff[i].pc = "run_build_script" =>
                 ~stuff[i].devices /\ st[Len(st)] = "dev"
           /\ (\E a \in 1..Len(st) : st[a] = "script") =>
                 (\E a \in 1..Len(st) : st[a] = "dev") /\ stuff[i].rc # None
           /\ (stuff[i].rc # None /\ stuff[i].rc # 0) =>
                 /\ stuff[i].pc \in {"exit", "done"}
                 /\ st[Len(st)] = "script"
                 /\ ~stuff[i].linked

\* C9 witness: an invocation ran all five stages.
StageOrderingSeen ==
    \E i \in Invocations :
        stuff[i].stages = <<"populate_dev", "populate_final", "dev", "script", "final">>

\* C10: when the stage after a cache-populate pass is reached, the tree and
\* the var-tmp directory that pass produced are gone from the workspace.
PopulateStateDiscarded ==
    \A i \in Invocations :
        LET st == stuff[i].stages
        IN (stuff[i].pc = "stage" /\ st # <<>>
              /\ st[Len(st)] \in {"populate_dev", "populate_final"})
           => (~stuff[i].root /\ ~stuff[i].var_tmp)

\* C15: cache idempotence.  A cache-populate pass runs the distribution
\* installation; a pass that works on a cache artifact has in its tree the
\* steps of the populate pass, inherited through the artifact, and adds its
\* own steps to them, no step being applied twice; the distribution
\* installation is among the inherited steps and is not run again.
CacheIdempotence ==
    \A i \in Invocations :
        LET f == stuff[i]
        IN /\ (f.pc = "pass_exit" /\ f.ctx.for_cache) => "distribution" \in f.applied
           /\ (f.pc = "pass_exit" /\ ~f.ctx.for_cache /\ (f.cached \/ f.cached_tree)) =>
                 /\ f.inherited = PopulateOps(args, f.ctx.dev)
                 /\ f.inherited \cap f.applied = {}
                 /\ "distribution" \in f.inherited
                 /\ "distribution" \notin f.applied

\* C29: the root size is kept.  The final pass of an invocation starts with
\* the root size of the loaded configuration.
RootSizeKept ==
    \A i \in Invocations :
        LET f == stuff[i]
        IN (f.ctx = StageCtx("final") /\ f.pc \in {"pass_tree", "pass_exit"}) =>
              f.used_root_size = args.root_size

\* C30: the output comes from a final pass.  When build_stuff has linked the
\* output, the BuildOutput it linked was returned by the final pass of this
\* invocation.
OutputFromFinalPass ==
    \A i \in Invocations : stuff[i].linked => stuff[i].source = "final"

====
